---- MODULE Spec2Model ----
(***************************************************************************)
(* State-machine model of the image-generation plugin's coordination core: *)
(*   - Jimeng2APIAdapter.generate: bounded retry, key rotation, backoff     *)
(*     (src/adapter/jimeng2api_adapter.py, src/core/base_adapter.py)        *)
(*   - TaskManager: loop / daily / ad-hoc tasks and cancel_all              *)
(*     (src/core/task_manager.py)                                           *)
(*   - the generation pipeline behind the concurrency semaphore             *)
(*     (src/main.py)                                                        *)
(*   - ImageProcessor.cleanup_cache (src/core/image_processor.py)           *)
(*   - ImageGenerator.generate, the dispatcher (src/core/generator.py)      *)
(*   - TaskManager's startup tasks (src/core/task_manager.py)               *)
(*   - the sanitization of a request against the adapter's capabilities     *)
(*     (src/main.py, src/core/utils.py)                                     *)
(* Every coroutine is cut at its await points: one action is one segment    *)
(* that the single-threaded event loop runs without interruption.           *)
(***************************************************************************)
EXTENDS Integers, Sequences, FiniteSets, TLC

\* ------------------------------------------------------------------ bounds
MaxKeys == 2          \* api_keys pools of length 0..MaxKeys
MaxAttempts == 5      \* config.max_retry_attempts in 0..MaxAttempts
MaxTasks == 2         \* asyncio.Task objects the TaskManager creates in one run
MaxLoopTasks == 3     \* the same, in the specification of the loop tasks alone
MaxDailyTasks == 2    \* the same, in the specification of the daily tasks alone
MaxFairLoopTasks == 2 \* the same, in the specification of the loop tasks with fairness
MaxDate == 1          \* calendar dates 0..MaxDate
MaxPipelines == 3     \* generation pipelines submitted in one run
MaxCapacity == 2      \* generation.max_concurrent_tasks in 0..MaxCapacity
MaxFiles == 4         \* entries of the cache directory
MaxMtime == 2         \* modification times 0..MaxMtime
MaxCacheCount == 2    \* cache.max_cache_count in 0..MaxCacheCount
MaxStartup == 3       \* startup factories registered in one run
MaxRuns == 2          \* invocations of run_startup_tasks in one run
MaxImages == 2        \* reference images of one request, 0..MaxImages
MaxCommands == 3      \* generation commands received in one run
MaxDailyLimit == 2    \* user_limits.daily_limit_count in 0..MaxDailyLimit
MaxRateLimit == 1     \* user_limits.rate_limit_seconds in 0..MaxRateLimit

\* ------------------------------------------------------- program constants
BackoffBase == 2      \* 2 ** (...)
BackoffCap == 10      \* min(..., 10)
DefaultDailyLimit == 10   \* UsageSettings.daily_limit_count
DefaultMaxRetry == 3  \* AdapterConfig.max_retry_attempts

\* String literals of the adapter (ASCII renderings of the source's texts).
NoKeyError == "no API key configured"
DefaultError == "generation failed"
RetryPrefix == "retry failed: "

\* What one _generate_once can return as its error description: str(e) of
\* an exception (empty for e.g. asyncio.TimeoutError()), or a fixed text.
AttemptErrors == {"", "API error (500)"}

Callers == {"c1", "c2"}

NoResult == [images |-> FALSE, error |-> "-"]

VARIABLES
    \* --- adapter (BaseImageAdapter fields)
    api_keys,            \* number of keys in the pool (the keys are 0..api_keys-1)
    max_retry_attempts,  \* max(1, config.max_retry_attempts)
    current_key_index,   \* shared rotation index
    \* --- one record per generate() invocation in flight, per caller
    gpc,                 \* "idle" | "request" | "backoff" | "returned"
    attempt,             \* loop variable of generate
    last_error,          \* local last_error
    result,              \* the GenerationResult returned
    \* --- observation (history) of the current call
    startIndex,          \* current_key_index when the call started
    usedKey,             \* credential index used by the latest attempt, or -1
    invocations,         \* number of _generate_once invocations made by the call
    lastRawError,        \* error description returned by the latest failed attempt
    sleeps,              \* sequence of [before |-> i, dur |-> d]
    rotations,           \* number of _rotate_api_key calls made by the call
    successAt,           \* attempt index that returned images, or -1
    interfered           \* another call changed current_key_index meanwhile

genVars == <<api_keys, max_retry_attempts, current_key_index, gpc, attempt,
             last_error, result, startIndex, usedKey, invocations, lastRawError,
             sleeps, rotations, successAt, interfered>>

VARIABLES
    \* --- TaskManager fields
    background_tasks,    \* set of task ids
    _loop_tasks,         \* name -> task id, or None
    _daily_tasks,        \* name -> task id, or None
    _last_run_dates,     \* name -> date, or NoDate
    \* --- the asyncio.Task objects created so far (ids 1..created)
    task,                \* id -> [kind, name, run_immediately, pc, must_cancel,
                         \*        cb_pending, current_date]
    created,             \* number of tasks created
    \* --- the clock (datetime.now().strftime("%Y-%m-%d"))
    today,
    \* --- the coroutine running cancel_all
    caPc,                \* "idle" | "gather" | "returned"
    caAwaited,           \* the tasks handed to asyncio.gather
    \* --- observation (history) per task
    hist                 \* id -> [startDay: the date has not changed since
                         \*        start_daily_task created the task;
                         \*        ranOnStartDay: a periodic check of the task
                         \*        invoked its factory on that date, the task
                         \*        having been started with
                         \*        run_immediately=False or its initial run
                         \*        having returned (daily tasks);
                         \*        lastFailed: its latest run raised (daily
                         \*        tasks), the run before the wait it is in
                         \*        raised (loop tasks)] (living tasks only);
                         \*        stopped: the name under which
                         \*        stop_loop_task / stop_daily_task cancelled
                         \*        the task in its periodic wait, until the
                         \*        name is registered again

tmVars == <<background_tasks, _loop_tasks, _daily_tasks, _last_run_dates, task,
            created, today, caPc, caAwaited, hist>>

VARIABLES
    \* --- ImageGenerationPlugin (main.py)
    configured,          \* config_manager.adapter_config is set: initialize
                         \* created self.generator and self.semaphore
    capacity,            \* config_manager.max_concurrent_tasks
    \* --- the asyncio.Semaphore in self.semaphore
    sem_value,           \* Semaphore._value
    sem_waiters,         \* Semaphore._waiters: the pipelines whose future is
                         \* in the deque, in order
    \* --- one record per _generate_and_send_image_async task
    pipe                 \* id -> [pc, fut, cancelling, cancelled, sanitized,
                         \*        unit, invoked, acquires, releases]

gateVars == <<configured, capacity, sem_value, sem_waiters, pipe>>

VARIABLES
    \* --- ImageProcessor and its cache directory
    cache_dir_exists,    \* os.path.exists(self._cache_dir)
    cache_entries,       \* position in os.listdir order -> [kind, mtime]
    _max_cache_count,
    \* --- observation (history) of the latest cleanup_cache call
    cleanup              \* [ran, before: cache_entries when it was called,
                         \*  failed: the entries whose os.remove raised]

cacheVars == <<cache_dir_exists, cache_entries, _max_cache_count, cleanup>>

VARIABLES
    \* --- ImageGenerator
    adapter_set,         \* self.adapter is not None
    \* --- one ImageGenerator.generate call per caller
    dpc,                 \* "idle" | "convert" | "adapter" | "returned" | "raised"
    dresult              \* [images, error, cause]: the GenerationResult returned
                         \* and (history) the branch that built it

dispVars == <<adapter_set, dpc, dresult>>

VARIABLES
    \* --- TaskManager (startup tasks)
    _startup_tasks,      \* the registered factories, in registration order
    _startup_completed,
    \* --- one record per run_startup_tasks invocation
    run                  \* id -> [pc, idx, running, started, failed, outcome,
                         \*        lateCall, regAtEnd]

startVars == <<_startup_tasks, _startup_completed, run>>

VARIABLES
    \* --- the sanitization in _generate_and_send_image_async
    capabilities,        \* self.generator.adapter.get_capabilities()
    call_args,           \* the arguments of the call, or NoArgs
    dispatched,          \* what the call hands to _do_generate_and_send
    spc                  \* "idle" | "called" | "dispatched"

sanVars == <<capabilities, call_args, dispatched, spc>>

VARIABLES
    \* --- UsageManager
    _settings,           \* [rate_limit_seconds, enable_daily_limit, daily_limit_count]
    _usage_data,         \* date -> user -> count (0 where the dict has no key)
    _user_request_timestamps,   \* user -> time of the last request let through
    now,                 \* time.time()
    \* --- one record per generation command received
    cmd                  \* id -> [pc, user, check]

usageVars == <<_settings, _usage_data, _user_request_timestamps, now, cmd>>

\* The state outside the adapter and the TaskManager's background tasks.
extVars == <<gateVars, cacheVars, dispVars, startVars, sanVars, usageVars>>

notGateVars == <<genVars, tmVars, cacheVars, dispVars, startVars, sanVars, usageVars>>
notCacheVars == <<genVars, tmVars, gateVars, dispVars, startVars, sanVars, usageVars>>
notDispVars == <<tmVars, gateVars, cacheVars, startVars, sanVars, usageVars>>
notStartVars == <<genVars, tmVars, gateVars, cacheVars, dispVars, sanVars, usageVars>>
notSanVars ==
    <<genVars, tmVars, gateVars, cacheVars, dispVars, startVars, usageVars>>
notUsageVars ==
    <<genVars, tmVars, gateVars, cacheVars, dispVars, startVars, sanVars>>

vars == <<genVars, tmVars, extVars>>

PipeIds == 1..MaxPipelines

\* A pipeline that has not been submitted.
\*   pc: "absent" | "new" (task created, not yet run) | "acquire" (suspended in
\*       Semaphore.acquire) | "generate" (awaiting self.generator.generate) |
\*       "send" (awaiting context.send_message) | "done"
\*   fut: the future of the pipeline's acquire: "none" | "pending" | "set" |
\*       "cancelled"
\*   cancelling: task.cancel() was called and the CancelledError is not yet
\*       delivered
\*   cancelled: the task ended with the CancelledError
\*   sanitized: the capability clean-up of lines 182-199 has run
\*   unit: the pipeline is inside `async with self.semaphore`
\*   invoked: "no" | "with_unit" | "without_unit": whether the pipeline reached
\*       the backend call, and whether it was inside the semaphore then
\*   acquires, releases: completed acquire() / release() calls
NoPipe ==
    [pc |-> "absent", fut |-> "none", cancelling |-> FALSE, cancelled |-> FALSE,
     sanitized |-> FALSE, unit |-> FALSE, invoked |-> "no", acquires |-> 0, releases |-> 0]

\* The plugin at rest: no pipeline is ever submitted.
InitGateIdle ==
    /\ configured = TRUE
    /\ capacity = 1
    /\ sem_value = 1
    /\ sem_waiters = <<>>
    /\ pipe = [p \in PipeIds |-> NoPipe]

EntryIds == 1..MaxFiles
NoEntry == [kind |-> "none", mtime |-> 0]
NoCleanup ==
    [ran |-> FALSE, before |-> [e \in EntryIds |-> NoEntry], failed |-> {},
     raised |-> FALSE]

\* An existing, empty cache directory that is never touched.
InitCacheIdle ==
    /\ cache_dir_exists = TRUE
    /\ cache_entries = [e \in EntryIds |-> NoEntry]
    /\ _max_cache_count = 1
    /\ cleanup = NoCleanup

\* The callers that go through ImageGenerator.generate.
DispatchCallers == {"c1"}
NoDispatch == [images |-> FALSE, error |-> "-", cause |-> "none"]

\* The dispatcher is never called.
InitDispIdle ==
    /\ adapter_set = TRUE
    /\ dpc = [c \in DispatchCallers |-> "idle"]
    /\ dresult = [c \in DispatchCallers |-> NoDispatch]

RunIds == 1..MaxRuns

\* An invocation of run_startup_tasks that has not been made.
\*   pc: "absent" | "new" (coroutine created, not yet run) | "factory"
\*       (awaiting coro_func()) | "done"
\*   idx: position of the for loop in self._startup_tasks
\*   running: the factories of this invocation that are executing
\*   started: the factories this invocation has started, in order
\*   failed: the factories that raised
\*   outcome: "none" | "skipped" | "completed" | "cancelled"
\*   lateCall: _startup_completed was already true when the invocation began
\*   regAtEnd: len(self._startup_tasks) when the for loop ended
NoRun ==
    [pc |-> "absent", idx |-> 0, running |-> {}, started |-> <<>>, failed |-> {},
     outcome |-> "none", lateCall |-> FALSE, regAtEnd |-> 0]

\* No startup task is registered and run_startup_tasks is never called.
InitStartup ==
    /\ _startup_tasks = <<>>
    /\ _startup_completed = FALSE
    /\ run = [r \in RunIds |-> NoRun]

\* The members of the ImageCapability flag.
ImageCapability == {"TEXT_TO_IMAGE", "IMAGE_TO_IMAGE", "ASPECT_RATIO", "RESOLUTION"}

\* Python's None, where a string is expected.
NoString == "None"

\* Python's None as images_data (a list is modelled by its length).
ImagesNone == -1

\* The sentinel of the automatic aspect ratio (a two-character Chinese
\* string in the source) and the baseline resolution.
AutoRatio == "auto"
BaselineResolution == "1K"

NoArgs ==
    [images_data |-> ImagesNone, aspect_ratio |-> NoString,
     resolution |-> NoString]
NoDispatched ==
    [images |-> 0, aspect_ratio |-> NoString, resolution |-> NoString,
     raised |-> FALSE]

\* No generation request is being sanitized; the adapter is the Jimeng one,
\* which declares every capability.
InitSanIdle ==
    /\ capabilities = ImageCapability
    /\ call_args = NoArgs
    /\ dispatched = NoDispatched
    /\ spc = "idle"

\* The users whose commands are followed, and a command not yet received.
\*   pc: "absent" | "rejected" | "returned" (the handler ended without a
\*       pipeline) | "generating" (the pipeline was created) | "done"
\*   check: what check_rate_limit returned: "-" | "ok" | "rate" | "daily"
Users == {"u1", "u2"}
NoCmd == [pc |-> "absent", user |-> "-", check |-> "-"]

\* UsageSettings' defaults (no limit), no usage recorded, no command received.
InitUsageIdle ==
    /\ _settings = [rate_limit_seconds |-> 0, enable_daily_limit |-> FALSE,
                    daily_limit_count |-> DefaultDailyLimit]
    /\ _usage_data = [d \in 0..MaxDate |-> [u \in Users |-> 0]]
    /\ _user_request_timestamps = [u \in Users |-> 0]
    /\ now = MaxRateLimit
    /\ cmd = [c \in 1..MaxCommands |-> NoCmd]

InitExtIdle ==
    InitGateIdle /\ InitCacheIdle /\ InitDispIdle /\ InitStartup /\ InitSanIdle
    /\ InitUsageIdle

\* ----------------------------------------------------------------- helpers
Max(a, b) == IF a >= b THEN a ELSE b
Min(a, b) == IF a <= b THEN a ELSE b

RECURSIVE Pow(_, _)
Pow(b, e) == IF e = 0 THEN 1 ELSE b * Pow(b, e - 1)

\* BaseImageAdapter.__init__: self.max_retry_attempts = max(1, cfg)
InitMaxRetry(cfg) == Max(1, cfg)

\* BaseImageAdapter._get_current_api_key: index of the key handed out
\* (-1 stands for the empty string returned for an empty pool).
_get_current_api_key == IF api_keys = 0 THEN -1 ELSE current_key_index % api_keys

\* (mutant) the rotation never moves the index.
RotateStuck == current_key_index

\* (mutant) the rotation does not wrap around.
RotateNoWrap ==
    IF api_keys > 1 THEN current_key_index + 1
    ELSE current_key_index

\* BaseImageAdapter._rotate_api_key: the new value of current_key_index.
_rotate_api_key ==
    IF api_keys > 1 THEN (current_key_index + 1) % api_keys
    ELSE current_key_index

\* (mutant) no backoff after the first cycle through the pool.
BackoffDueAfterFirstCycle(done) ==
    done % Max(1, api_keys) = 0 /\ done > Max(1, api_keys)

\* generate, line 45: is a backoff due after `done` attempts were made?
BackoffDue(done) == done % Max(1, api_keys) = 0

\* (mutant) the backoff is not capped.
BackoffDurationUncapped(done) == Pow(BackoffBase, done \div api_keys)

\* generate, line 47: its duration.
BackoffDuration(done) == Min(Pow(BackoffBase, done \div api_keys), BackoffCap)

\* generate, line 42: last_error = err or "<default>"
ErrOrDefault(err) == IF err = "" THEN DefaultError ELSE err

\* (mutant) one attempt too many.
MoreAttemptsOffByOne(a) == a < max_retry_attempts

\* generate, line 43: more attempts remain after this one.
MoreAttempts(a) == a < max_retry_attempts - 1

\* ---------------------------------------------------------------- Init
InitGen ==
    /\ api_keys \in 0..MaxKeys
    /\ \E cfg \in 0..MaxAttempts : max_retry_attempts = InitMaxRetry(cfg)
    /\ current_key_index = 0
    /\ gpc = [c \in Callers |-> "idle"]
    /\ attempt = [c \in Callers |-> 0]
    /\ last_error = [c \in Callers |-> "-"]
    /\ result = [c \in Callers |-> NoResult]
    /\ startIndex = [c \in Callers |-> 0]
    /\ usedKey = [c \in Callers |-> -1]
    /\ invocations = [c \in Callers |-> 0]
    /\ lastRawError = [c \in Callers |-> "-"]
    /\ sleeps = [c \in Callers |-> <<>>]
    /\ rotations = [c \in Callers |-> 0]
    /\ successAt = [c \in Callers |-> -1]
    /\ interfered = [c \in Callers |-> FALSE]

\* ------------------------------------------------- Jimeng2APIAdapter.generate
\* Entering _generate_once: the Authorization header is built from
\* _get_current_api_key() before the coroutine first suspends on the POST.
BeginRequest(c, a) ==
    /\ attempt' = [attempt EXCEPT ![c] = a]
    /\ usedKey' = [usedKey EXCEPT ![c] = _get_current_api_key]
    /\ invocations' = [invocations EXCEPT ![c] = @ + 1]
    /\ gpc' = [gpc EXCEPT ![c] = "request"]

\* (mutant) generate without its empty-pool check.
GenerateCallNoKeyCheck(c) ==
    /\ gpc[c] = "idle"
    /\ startIndex' = [startIndex EXCEPT ![c] = current_key_index]
    /\ lastRawError' = [lastRawError EXCEPT ![c] = "-"]
    /\ sleeps' = [sleeps EXCEPT ![c] = <<>>]
    /\ rotations' = [rotations EXCEPT ![c] = 0]
    /\ successAt' = [successAt EXCEPT ![c] = -1]
    /\ interfered' = [interfered EXCEPT ![c] = FALSE]
    /\ last_error' = [last_error EXCEPT ![c] = NoKeyError]
    /\ usedKey' = [usedKey EXCEPT ![c] = _get_current_api_key]
    /\ invocations' = [invocations EXCEPT ![c] = 1]
    /\ attempt' = [attempt EXCEPT ![c] = 0]
    /\ gpc' = [gpc EXCEPT ![c] = "request"]
    /\ UNCHANGED <<api_keys, max_retry_attempts, current_key_index, result>>
    /\ UNCHANGED <<tmVars, extVars>>

\* generate() is called: the empty-pool check, then attempt 0 is issued.
GenerateCall(c) ==
    /\ gpc[c] = "idle"
    /\ startIndex' = [startIndex EXCEPT ![c] = current_key_index]
    /\ lastRawError' = [lastRawError EXCEPT ![c] = "-"]
    /\ sleeps' = [sleeps EXCEPT ![c] = <<>>]
    /\ rotations' = [rotations EXCEPT ![c] = 0]
    /\ successAt' = [successAt EXCEPT ![c] = -1]
    /\ interfered' = [interfered EXCEPT ![c] = FALSE]
    /\ IF api_keys = 0
       THEN /\ result' = [result EXCEPT ![c] = [images |-> FALSE, error |-> NoKeyError]]
            /\ gpc' = [gpc EXCEPT ![c] = "returned"]
            /\ usedKey' = [usedKey EXCEPT ![c] = -1]
            /\ invocations' = [invocations EXCEPT ![c] = 0]
            /\ UNCHANGED <<attempt, last_error>>
       ELSE /\ last_error' = [last_error EXCEPT ![c] = NoKeyError]
            /\ usedKey' = [usedKey EXCEPT ![c] = _get_current_api_key]
            /\ invocations' = [invocations EXCEPT ![c] = 1]
            /\ attempt' = [attempt EXCEPT ![c] = 0]
            /\ gpc' = [gpc EXCEPT ![c] = "request"]
            /\ UNCHANGED result
    /\ UNCHANGED <<tmVars, extVars>>
    /\ UNCHANGED <<api_keys, max_retry_attempts, current_key_index>>

\* (mutant) generate does not return on success but goes on to the next
\* attempt.
AttemptSucceedsNoReturn(c) ==
    /\ gpc[c] = "request"
    /\ successAt' = [successAt EXCEPT ![c] = attempt[c]]
    /\ BeginRequest(c, attempt[c] + 1)
    /\ attempt[c] + 1 < max_retry_attempts
    /\ UNCHANGED <<api_keys, max_retry_attempts, current_key_index, last_error,
                   result, startIndex, lastRawError, sleeps, rotations,
                   interfered>>
    /\ UNCHANGED <<tmVars, extVars>>

\* (mutant) the key is rotated after a successful attempt too.
AttemptSucceedsRotates(c) ==
    /\ gpc[c] = "request"
    /\ result' = [result EXCEPT ![c] = [images |-> TRUE, error |-> "-"]]
    /\ successAt' = [successAt EXCEPT ![c] = attempt[c]]
    /\ current_key_index' = _rotate_api_key
    /\ gpc' = [gpc EXCEPT ![c] = "returned"]
    /\ UNCHANGED <<tmVars, extVars>>
    /\ UNCHANGED <<api_keys, max_retry_attempts, attempt,
                   last_error, startIndex, usedKey, invocations, lastRawError, sleeps,
                   rotations, interfered>>

\* _generate_once returned a non-empty image list: generate returns success.
AttemptSucceeds(c) ==
    /\ gpc[c] = "request"
    /\ result' = [result EXCEPT ![c] = [images |-> TRUE, error |-> "-"]]
    /\ successAt' = [successAt EXCEPT ![c] = attempt[c]]
    /\ gpc' = [gpc EXCEPT ![c] = "returned"]
    /\ UNCHANGED <<tmVars, extVars>>
    /\ UNCHANGED <<api_keys, max_retry_attempts, current_key_index, attempt,
                   last_error, startIndex, usedKey, invocations, lastRawError, sleeps,
                   rotations, interfered>>

\* _generate_once returned (None, err) and more attempts remain: rotate, then
\* either suspend in the backoff sleep or issue the next attempt at once.
AttemptFailsRetry(c, err) ==
    /\ gpc[c] = "request"
    /\ MoreAttempts(attempt[c])
    /\ last_error' = [last_error EXCEPT ![c] = ErrOrDefault(err)]
    /\ lastRawError' = [lastRawError EXCEPT ![c] = err]
    /\ current_key_index' = _rotate_api_key
    /\ rotations' = [rotations EXCEPT ![c] = @ + 1]
    /\ interfered' = [d \in Callers |->
                        IF d # c /\ gpc[d] \in {"request", "backoff"}
                           /\ current_key_index' # current_key_index
                        THEN TRUE ELSE interfered[d]]
    /\ IF BackoffDue(attempt[c] + 1)
       THEN /\ sleeps' = [sleeps EXCEPT ![c] =
                            Append(@, [before |-> attempt[c] + 1,
                                       dur |-> BackoffDuration(attempt[c] + 1)])]
            /\ gpc' = [gpc EXCEPT ![c] = "backoff"]
            /\ UNCHANGED <<attempt, usedKey, invocations>>
       ELSE /\ attempt' = [attempt EXCEPT ![c] = attempt[c] + 1]
            /\ usedKey' = [usedKey EXCEPT ![c] =
                              IF api_keys = 0 THEN -1
                              ELSE current_key_index' % api_keys]
            /\ invocations' = [invocations EXCEPT ![c] = @ + 1]
            /\ gpc' = [gpc EXCEPT ![c] = "request"]
            /\ UNCHANGED sleeps
    /\ UNCHANGED <<tmVars, extVars>>
    /\ UNCHANGED <<api_keys, max_retry_attempts, result, startIndex, successAt>>

\* The backoff sleep is over: the next attempt is issued.
BackoffElapsed(c) ==
    /\ gpc[c] = "backoff"
    /\ BeginRequest(c, attempt[c] + 1)
    /\ UNCHANGED <<tmVars, extVars>>
    /\ UNCHANGED <<api_keys, max_retry_attempts, current_key_index, last_error,
                   result, startIndex, lastRawError, sleeps, rotations, successAt,
                   interfered>>

\* (mutant) the key is rotated after the last attempt as after the others.
AttemptFailsFinalRotates(c, err) ==
    /\ gpc[c] = "request"
    /\ ~MoreAttempts(attempt[c])
    /\ last_error' = [last_error EXCEPT ![c] = ErrOrDefault(err)]
    /\ lastRawError' = [lastRawError EXCEPT ![c] = err]
    /\ current_key_index' = _rotate_api_key
    /\ result' = [result EXCEPT ![c] =
                    [images |-> FALSE, error |-> RetryPrefix \o ErrOrDefault(err)]]
    /\ gpc' = [gpc EXCEPT ![c] = "returned"]
    /\ UNCHANGED <<tmVars, extVars>>
    /\ UNCHANGED <<api_keys, max_retry_attempts, attempt,
                   startIndex, usedKey, invocations, sleeps, rotations, successAt, interfered>>

\* The last attempt failed: the loop ends and the aggregated failure is returned.
AttemptFailsFinal(c, err) ==
    /\ gpc[c] = "request"
    /\ ~MoreAttempts(attempt[c])
    /\ last_error' = [last_error EXCEPT ![c] = ErrOrDefault(err)]
    /\ lastRawError' = [lastRawError EXCEPT ![c] = err]
    /\ result' = [result EXCEPT ![c] =
                    [images |-> FALSE, error |-> RetryPrefix \o ErrOrDefault(err)]]
    /\ gpc' = [gpc EXCEPT ![c] = "returned"]
    /\ UNCHANGED <<tmVars, extVars>>
    /\ UNCHANGED <<api_keys, max_retry_attempts, current_key_index, attempt,
                   startIndex, usedKey, invocations, sleeps, rotations, successAt, interfered>>

\* The caller has consumed the result; it may call generate again.
CallerContinues(c) ==
    /\ gpc[c] = "returned"
    /\ gpc' = [gpc EXCEPT ![c] = "idle"]
    /\ result' = [result EXCEPT ![c] = NoResult]
    /\ usedKey' = [usedKey EXCEPT ![c] = -1]
    /\ invocations' = [invocations EXCEPT ![c] = 0]
    /\ lastRawError' = [lastRawError EXCEPT ![c] = "-"]
    /\ sleeps' = [sleeps EXCEPT ![c] = <<>>]
    /\ rotations' = [rotations EXCEPT ![c] = 0]
    /\ successAt' = [successAt EXCEPT ![c] = -1]
    /\ attempt' = [attempt EXCEPT ![c] = 0]
    /\ last_error' = [last_error EXCEPT ![c] = "-"]
    /\ startIndex' = [startIndex EXCEPT ![c] = 0]
    /\ interfered' = [interfered EXCEPT ![c] = FALSE]
    /\ UNCHANGED <<tmVars, extVars>>
    /\ UNCHANGED <<api_keys, max_retry_attempts, current_key_index>>

NextGen ==
    \/ \E c \in Callers : GenerateCall(c)
    \/ \E c \in Callers : AttemptSucceeds(c)
    \/ \E c \in Callers, err \in AttemptErrors : AttemptFailsRetry(c, err)
    \/ \E c \in Callers : BackoffElapsed(c)
    \/ \E c \in Callers, err \in AttemptErrors : AttemptFailsFinal(c, err)
    \/ \E c \in Callers : CallerContinues(c)

\* ------------------------------------------------------ TaskManager helpers
\* Tasks under different names share nothing but background_tasks; one name
\* (main.py registers a daily and a startup task under it) carries every
\* interaction between the instances of a name.
Names == {"jimeng_token_receive"}
TaskIds == 1..Max(Max(MaxTasks, MaxFairLoopTasks), Max(MaxLoopTasks, MaxDailyTasks))
None == 0             \* the default of dict.pop(name, None)
NoDate == -1          \* the None of _last_run_dates.get(name)

NoTask == [kind |-> "none", name |-> "-", run_immediately |-> FALSE,
           pc |-> "absent", must_cancel |-> FALSE, cb_pending |-> FALSE,
           current_date |-> NoDate]
NoHist == [startDay |-> FALSE, ranOnStartDay |-> FALSE, lastFailed |-> FALSE,
           stopped |-> "-"]

\* asyncio.create_task: the coroutine's first step is scheduled.
NewTask(kind, name, run_immediately) ==
    [NoTask EXCEPT !.kind = kind, !.name = name,
                   !.run_immediately = run_immediately, !.pc = "new"]

\* The task exists and has not terminated (not task.done()).
Alive(i) == task[i].pc \in {"new", "init_run", "sleep", "run"}

\* The task can take a normal step: no cancellation is waiting for it.
Runnable(i) == Alive(i) /\ ~task[i].must_cancel

\* A task that has ended (task.done()); its done callbacks are scheduled.
\* Only what the callback reads is kept of the coroutine's state.
Finished(t) ==
    [NoTask EXCEPT !.kind = t.kind, !.name = t.name, !.pc = "done",
                   !.cb_pending = TRUE]

\* The task registered under a name, as a set (empty when there is none).
Registered(registry, name) ==
    IF registry[name] = None THEN {} ELSE {registry[name]}

\* `if not task.done(): task.cancel()` for each task of ids.
Cancel(t, ids) ==
    [i \in TaskIds |->
        IF i \in ids /\ t[i].pc \in {"new", "init_run", "sleep", "run"}
        THEN [t[i] EXCEPT !.must_cancel = TRUE] ELSE t[i]]

\* History: stop_loop_task / stop_daily_task(name) cancels the registered
\* task while it is suspended in its periodic wait.
StoppedInWait(h, registry, name) ==
    [i \in TaskIds |->
        IF /\ i \in Registered(registry, name)
           /\ task[i].pc = "sleep" /\ ~task[i].must_cancel
        THEN [h[i] EXCEPT !.stopped = name] ELSE h[i]]

\* History: start_loop_task / start_daily_task registers the name again.
Reregistered(h, kind, name) ==
    [i \in TaskIds |->
        IF task[i].kind = kind /\ h[i].stopped = name
        THEN [h[i] EXCEPT !.stopped = "-"] ELSE h[i]]

InitTM ==
    /\ background_tasks = {}
    /\ _loop_tasks = [n \in Names |-> None]
    /\ _daily_tasks = [n \in Names |-> None]
    /\ _last_run_dates = [n \in Names |-> NoDate]
    /\ task = [i \in TaskIds |-> NoTask]
    /\ created = 0
    /\ today = 0
    /\ caPc = "idle"
    /\ caAwaited = {}
    /\ hist = [i \in TaskIds |-> NoHist]

\* The adapter as AdapterConfig's defaults build it, with one key, at rest.
InitGenIdle ==
    /\ api_keys = 1
    /\ max_retry_attempts = InitMaxRetry(DefaultMaxRetry)
    /\ current_key_index = 0
    /\ gpc = [c \in Callers |-> "idle"]
    /\ attempt = [c \in Callers |-> 0]
    /\ last_error = [c \in Callers |-> "-"]
    /\ result = [c \in Callers |-> NoResult]
    /\ startIndex = [c \in Callers |-> 0]
    /\ usedKey = [c \in Callers |-> -1]
    /\ invocations = [c \in Callers |-> 0]
    /\ lastRawError = [c \in Callers |-> "-"]
    /\ sleeps = [c \in Callers |-> <<>>]
    /\ rotations = [c \in Callers |-> 0]
    /\ successAt = [c \in Callers |-> -1]
    /\ interfered = [c \in Callers |-> FALSE]


\* The adapter under every configuration, the TaskManager at rest.
InitAdapter == InitGen /\ InitTM /\ InitExtIdle

SpecGen == InitAdapter /\ [][NextGen]_vars

\* ==========================================================================
\* TaskManager (src/core/task_manager.py)
\* ==========================================================================

\* ---- asyncio.Task steps: the body of _loop
\* (mutant) the initial run is made whatever run_immediately says.
LoopFirstStepAlwaysRuns(i) ==
    /\ Runnable(i) /\ task[i].kind = "loop" /\ task[i].pc = "new"
    /\ task' = [task EXCEPT ![i].pc = "init_run"]
    /\ UNCHANGED <<genVars, extVars>>
    /\ UNCHANGED <<background_tasks, _loop_tasks, _daily_tasks, _last_run_dates,
                   created, today, caPc, caAwaited, hist>>

\* First step of _loop: the initial run starts, or the periodic wait begins.
LoopFirstStep(i) ==
    /\ Runnable(i) /\ task[i].kind = "loop" /\ task[i].pc = "new"
    /\ task' = [task EXCEPT ![i].pc = IF task[i].run_immediately
                                      THEN "init_run" ELSE "sleep"]
    /\ UNCHANGED <<genVars, extVars>>
    /\ UNCHANGED <<background_tasks, _loop_tasks, _daily_tasks, _last_run_dates,
                   created, today, caPc, caAwaited, hist>>

\* The initial `await coro_func()` ends; an Exception is caught and logged.
LoopInitialRunEnds(i, ok) ==
    /\ Runnable(i) /\ task[i].kind = "loop" /\ task[i].pc = "init_run"
    /\ task' = [task EXCEPT ![i].pc = "sleep"]
    /\ hist' = [hist EXCEPT ![i].lastFailed = ~ok]
    /\ UNCHANGED <<genVars, extVars>>
    /\ UNCHANGED <<background_tasks, _loop_tasks, _daily_tasks, _last_run_dates,
                   created, today, caPc, caAwaited>>

\* asyncio.sleep(interval_seconds) is over: the factory is invoked.
\* (run_immediately is read by the first step alone; the model keeps it
\* until the first wait is over.)
LoopSleepElapses(i) ==
    /\ Runnable(i) /\ task[i].kind = "loop" /\ task[i].pc = "sleep"
    /\ task' = [task EXCEPT ![i].pc = "run", ![i].run_immediately = FALSE]
    /\ hist' = [hist EXCEPT ![i].lastFailed = FALSE]
    /\ UNCHANGED <<genVars, extVars>>
    /\ UNCHANGED <<background_tasks, _loop_tasks, _daily_tasks, _last_run_dates,
                   created, today, caPc, caAwaited>>

\* (mutant) an Exception raised by the periodic run ends the task.
LoopRunEndsFatal(i, ok) ==
    /\ Runnable(i) /\ task[i].kind = "loop" /\ task[i].pc = "run"
    /\ task' = [task EXCEPT ![i] = IF ok THEN [@ EXCEPT !.pc = "sleep"]
                                   ELSE Finished(@)]
    /\ hist' = [hist EXCEPT ![i].lastFailed = ~ok]
    /\ UNCHANGED <<genVars, extVars>>
    /\ UNCHANGED <<background_tasks, _loop_tasks, _daily_tasks, _last_run_dates,
                   created, today, caPc, caAwaited>>

\* The periodic `await coro_func()` ends; an Exception is caught and logged.
LoopRunEnds(i, ok) ==
    /\ Runnable(i) /\ task[i].kind = "loop" /\ task[i].pc = "run"
    /\ task' = [task EXCEPT ![i].pc = "sleep"]
    /\ hist' = [hist EXCEPT ![i].lastFailed = ~ok]
    /\ UNCHANGED <<genVars, extVars>>
    /\ UNCHANGED <<background_tasks, _loop_tasks, _daily_tasks, _last_run_dates,
                   created, today, caPc, caAwaited>>

\* ---- asyncio.Task steps: the body of _daily_loop
\* First step of _daily_loop: with run_immediately the factory starts;
\* otherwise today's date is recorded as last run.
DailyFirstStep(i) ==
    /\ Runnable(i) /\ task[i].kind = "daily" /\ task[i].pc = "new"
    /\ IF task[i].run_immediately
       THEN /\ task' = [task EXCEPT ![i].pc = "init_run"]
            /\ UNCHANGED _last_run_dates
       ELSE /\ task' = [task EXCEPT ![i].pc = "sleep"]
            /\ _last_run_dates' = [_last_run_dates EXCEPT ![task[i].name] = today]
    /\ UNCHANGED <<genVars, extVars>>
    /\ UNCHANGED <<background_tasks, _loop_tasks, _daily_tasks, created, today,
                   caPc, caAwaited, hist>>

\* The initial run ends: the date is recorded only when it did not raise.
DailyInitialRunEnds(i, ok) ==
    /\ Runnable(i) /\ task[i].kind = "daily" /\ task[i].pc = "init_run"
    /\ task' = [task EXCEPT ![i].pc = "sleep"]
    /\ _last_run_dates' = IF ok
                          THEN [_last_run_dates EXCEPT ![task[i].name] = today]
                          ELSE _last_run_dates
    /\ hist' = [hist EXCEPT ![i].lastFailed = ~ok]
    /\ UNCHANGED <<genVars, extVars>>
    /\ UNCHANGED <<background_tasks, _loop_tasks, _daily_tasks, created, today,
                   caPc, caAwaited>>

\* asyncio.sleep(check_interval_seconds) is over: the date is compared with
\* the stored last-run date; when they differ the factory is invoked.
DailyCheck(i) ==
    /\ Runnable(i) /\ task[i].kind = "daily" /\ task[i].pc = "sleep"
    /\ IF today # _last_run_dates[task[i].name]
       THEN /\ task' = [task EXCEPT ![i].pc = "run", ![i].current_date = today]
            /\ hist' = [hist EXCEPT ![i].ranOnStartDay =
                                  @ \/ (/\ hist[i].startDay
                                        /\ \/ ~task[i].run_immediately
                                           \/ ~hist[i].lastFailed)]
       ELSE UNCHANGED <<task, hist>>
    /\ UNCHANGED <<genVars, extVars>>
    /\ UNCHANGED <<background_tasks, _loop_tasks, _daily_tasks, _last_run_dates,
                   created, today, caPc, caAwaited>>

\* (mutant) the date is recorded whether or not the run raised.
DailyRunRecordsAlways(i, ok) ==
    [_last_run_dates EXCEPT ![task[i].name] = task[i].current_date]

\* What the end of a daily run leaves in _last_run_dates: the assignment
\* follows `await coro_func()` inside the try, so a raising run skips it.
DailyRunRecords(i, ok) ==
    IF ok THEN [_last_run_dates EXCEPT ![task[i].name] = task[i].current_date]
    ELSE _last_run_dates

\* The daily `await coro_func()` ends.
DailyRunEnds(i, ok) ==
    /\ Runnable(i) /\ task[i].kind = "daily" /\ task[i].pc = "run"
    /\ task' = [task EXCEPT ![i].pc = "sleep", ![i].current_date = NoDate]
    /\ _last_run_dates' = DailyRunRecords(i, ok)
    /\ hist' = [hist EXCEPT ![i].lastFailed = ~ok]
    /\ UNCHANGED <<genVars, extVars>>
    /\ UNCHANGED <<background_tasks, _loop_tasks, _daily_tasks, created, today,
                   caPc, caAwaited>>

\* ---- ad-hoc coroutine handed to create_task
AdhocFirstStep(i) ==
    /\ Runnable(i) /\ task[i].kind = "adhoc" /\ task[i].pc = "new"
    /\ task' = [task EXCEPT ![i].pc = "run"]
    /\ UNCHANGED <<genVars, extVars>>
    /\ UNCHANGED <<background_tasks, _loop_tasks, _daily_tasks, _last_run_dates,
                   created, today, caPc, caAwaited, hist>>

AdhocCompletes(i) ==
    /\ Runnable(i) /\ task[i].kind = "adhoc" /\ task[i].pc = "run"
    /\ task' = [task EXCEPT ![i] = Finished(task[i])]
    /\ UNCHANGED <<genVars, extVars>>
    /\ UNCHANGED <<background_tasks, _loop_tasks, _daily_tasks, _last_run_dates,
                   created, today, caPc, caAwaited, hist>>

\* ---- cancellation and completion
\* A task whose cancellation was requested gets CancelledError at its next
\* step: _loop/_daily_loop break out of the wait (or the error leaves the
\* initial run, which `except Exception` does not catch) and the task ends.
TaskCancelled(i) ==
    /\ Alive(i) /\ task[i].must_cancel
    /\ task' = [task EXCEPT ![i] = Finished(task[i])]
    /\ hist' = [hist EXCEPT ![i] = [NoHist EXCEPT !.stopped = hist[i].stopped]]
    /\ UNCHANGED <<genVars, extVars>>
    /\ UNCHANGED <<background_tasks, _loop_tasks, _daily_tasks, _last_run_dates,
                   created, today, caPc, caAwaited>>

\* _on_loop_task_done(name, task): pops whatever is registered under name.
_on_loop_task_done(i) ==
    /\ background_tasks' = background_tasks \ {i}
    /\ _loop_tasks' = [_loop_tasks EXCEPT ![task[i].name] = None]
    /\ UNCHANGED <<_daily_tasks, _last_run_dates>>

\* _on_daily_task_done(name, task)
_on_daily_task_done(i) ==
    /\ background_tasks' = background_tasks \ {i}
    /\ _daily_tasks' = [_daily_tasks EXCEPT ![task[i].name] = None]
    /\ _last_run_dates' = [_last_run_dates EXCEPT ![task[i].name] = NoDate]
    /\ UNCHANGED _loop_tasks

\* The event loop runs the done callback registered for a finished task.
DoneCallback(i) ==
    /\ task[i].pc = "done" /\ task[i].cb_pending
    /\ task' = [task EXCEPT ![i].cb_pending = FALSE, ![i].name = "-"]
    /\ CASE task[i].kind = "loop" -> _on_loop_task_done(i)
         [] task[i].kind = "daily" -> _on_daily_task_done(i)
         [] OTHER -> /\ background_tasks' = background_tasks \ {i}
                     /\ UNCHANGED <<_loop_tasks, _daily_tasks, _last_run_dates>>
    /\ UNCHANGED <<genVars, extVars>>
    /\ UNCHANGED <<created, today, caPc, caAwaited, hist>>

\* ---- the TaskManager's methods
\* create_task(coro, name)
create_task ==
    /\ created + 1 \in TaskIds
    /\ task' = [task EXCEPT ![created + 1] = NewTask("adhoc", "-", FALSE)]
    /\ background_tasks' = background_tasks \cup {created + 1}
    /\ created' = created + 1
    /\ UNCHANGED <<genVars, extVars>>
    /\ UNCHANGED <<_loop_tasks, _daily_tasks, _last_run_dates, today, caPc,
                   caAwaited, hist>>

\* (mutant) one registry for every kind of task: stopping a loop name also
\* stops the daily task of that name.
stop_loop_taskAnyKind(name) ==
    /\ task' = Cancel(task, Registered(_loop_tasks, name)
                              \cup Registered(_daily_tasks, name))
    /\ _loop_tasks' = [_loop_tasks EXCEPT ![name] = None]
    /\ _daily_tasks' = [_daily_tasks EXCEPT ![name] = None]
    /\ hist' = StoppedInWait(hist, _loop_tasks, name)
    /\ UNCHANGED <<genVars, extVars>>
    /\ UNCHANGED <<background_tasks, _last_run_dates, created,
                   today, caPc, caAwaited>>

\* stop_loop_task(name)
stop_loop_task(name) ==
    /\ task' = Cancel(task, Registered(_loop_tasks, name))
    /\ _loop_tasks' = [_loop_tasks EXCEPT ![name] = None]
    /\ hist' = StoppedInWait(hist, _loop_tasks, name)
    /\ UNCHANGED <<genVars, extVars>>
    /\ UNCHANGED <<background_tasks, _daily_tasks, _last_run_dates, created,
                   today, caPc, caAwaited>>

\* start_loop_task(name, coro_func, interval_seconds, run_immediately)
start_loop_task(name, run_immediately) ==
    /\ created + 1 \in TaskIds
    /\ task' = [Cancel(task, Registered(_loop_tasks, name)) EXCEPT
                  ![created + 1] = NewTask("loop", name, run_immediately)]
    /\ _loop_tasks' = [_loop_tasks EXCEPT ![name] = created + 1]
    /\ background_tasks' = background_tasks \cup {created + 1}
    /\ hist' = Reregistered(hist, "loop", name)
    /\ created' = created + 1
    /\ UNCHANGED <<genVars, extVars>>
    /\ UNCHANGED <<_daily_tasks, _last_run_dates, today, caPc, caAwaited>>

\* (mutant) the last-run date is popped whether or not a task is registered.
stop_daily_taskPopsDate(name) ==
    /\ task' = Cancel(task, Registered(_daily_tasks, name))
    /\ _daily_tasks' = [_daily_tasks EXCEPT ![name] = None]
    /\ _last_run_dates' = [_last_run_dates EXCEPT ![name] = NoDate]
    /\ hist' = StoppedInWait(hist, _daily_tasks, name)
    /\ UNCHANGED <<genVars, extVars>>
    /\ UNCHANGED <<background_tasks, _loop_tasks, created, today, caPc,
                   caAwaited>>

\* stop_daily_task(name): the last-run date goes only with a registered task.
stop_daily_task(name) ==
    /\ task' = Cancel(task, Registered(_daily_tasks, name))
    /\ _daily_tasks' = [_daily_tasks EXCEPT ![name] = None]
    /\ _last_run_dates' = IF _daily_tasks[name] # None
                          THEN [_last_run_dates EXCEPT ![name] = NoDate]
                          ELSE _last_run_dates
    /\ hist' = StoppedInWait(hist, _daily_tasks, name)
    /\ UNCHANGED <<genVars, extVars>>
    /\ UNCHANGED <<background_tasks, _loop_tasks, created, today, caPc,
                   caAwaited>>

\* start_daily_task(name, coro_func, check_interval_seconds, run_immediately)
start_daily_task(name, run_immediately) ==
    /\ created + 1 \in TaskIds
    /\ task' = [Cancel(task, Registered(_daily_tasks, name)) EXCEPT
                  ![created + 1] = NewTask("daily", name, run_immediately)]
    /\ _daily_tasks' = [_daily_tasks EXCEPT ![name] = created + 1]
    /\ _last_run_dates' = IF _daily_tasks[name] # None
                          THEN [_last_run_dates EXCEPT ![name] = NoDate]
                          ELSE _last_run_dates
    /\ background_tasks' = background_tasks \cup {created + 1}
    /\ hist' = [Reregistered(hist, "daily", name) EXCEPT
                  ![created + 1] = [NoHist EXCEPT !.startDay = TRUE]]
    /\ created' = created + 1
    /\ UNCHANGED <<genVars, extVars>>
    /\ UNCHANGED <<_loop_tasks, today, caPc, caAwaited>>

\* cancel_all, lines 234-237: all bookkeeping is cleared.
ClearAll ==
    /\ background_tasks' = {}
    /\ _loop_tasks' = [n \in Names |-> None]
    /\ _daily_tasks' = [n \in Names |-> None]
    /\ _last_run_dates' = [n \in Names |-> NoDate]

\* cancel_all up to its await: every tracked task that is not done is
\* cancelled; with nothing tracked the method clears and returns at once.
CancelAllBegin ==
    /\ caPc = "idle"
    /\ task' = Cancel(task, background_tasks)
    /\ IF background_tasks # {}
       THEN /\ caPc' = "gather"
            /\ caAwaited' = background_tasks
            /\ UNCHANGED <<background_tasks, _loop_tasks, _daily_tasks,
                           _last_run_dates>>
       ELSE /\ caPc' = "returned"
            /\ caAwaited' = {}
            /\ ClearAll
    /\ UNCHANGED <<genVars, extVars>>
    /\ UNCHANGED <<created, today, hist>>

\* (mutant) cancel_all does not wait for the cancelled tasks.
GatherNotAwaited == TRUE

\* asyncio.gather(*background_tasks, return_exceptions=True) is done when
\* every task handed to it is done; gather's own callback on a task runs
\* after the callback the manager added when it created the task.
GatherDone == \A i \in caAwaited : task[i].pc = "done" /\ ~task[i].cb_pending

\* cancel_all after its await: clear and return.
CancelAllReturn ==
    /\ caPc = "gather"
    /\ GatherDone
    /\ ClearAll
    /\ caPc' = "returned"
    /\ UNCHANGED <<genVars, extVars>>
    /\ UNCHANGED <<task, created, today, caAwaited, hist>>

\* The calendar date changes.
DateChanges ==
    /\ today < MaxDate
    /\ today' = today + 1
    /\ hist' = [i \in TaskIds |-> [hist[i] EXCEPT !.startDay = FALSE]]
    /\ UNCHANGED <<genVars, extVars>>
    /\ UNCHANGED <<background_tasks, _loop_tasks, _daily_tasks, _last_run_dates,
                   task, created, caPc, caAwaited>>

\* Every kind of task with stop/start and cancel_all, on one calendar date
\* (the clock is read by the daily tasks alone and moves under SpecDaily).
NextTM ==
    \/ \E i \in TaskIds : LoopFirstStep(i)
    \/ \E i \in TaskIds, ok \in BOOLEAN : LoopInitialRunEnds(i, ok)
    \/ \E i \in TaskIds : LoopSleepElapses(i)
    \/ \E i \in TaskIds, ok \in BOOLEAN : LoopRunEnds(i, ok)
    \/ \E i \in TaskIds : DailyFirstStep(i)
    \/ \E i \in TaskIds, ok \in BOOLEAN : DailyInitialRunEnds(i, ok)
    \/ \E i \in TaskIds : DailyCheck(i)
    \/ \E i \in TaskIds, ok \in BOOLEAN : DailyRunEnds(i, ok)
    \/ \E i \in TaskIds : AdhocFirstStep(i)
    \/ \E i \in TaskIds : AdhocCompletes(i)
    \/ \E i \in TaskIds : TaskCancelled(i)
    \/ \E i \in TaskIds : DoneCallback(i)
    \/ created < MaxTasks /\ create_task
    \/ \E n \in Names : stop_loop_task(n)
    \/ \E n \in Names, imm \in BOOLEAN :
          created < MaxTasks /\ start_loop_task(n, imm)
    \/ \E n \in Names : stop_daily_task(n)
    \/ \E n \in Names, imm \in BOOLEAN :
          created < MaxTasks /\ start_daily_task(n, imm)
    \/ CancelAllBegin
    \/ CancelAllReturn

\* The TaskManager as constructed, the adapter at rest.
InitScheduler == InitGenIdle /\ InitTM /\ InitExtIdle

SpecTM == InitScheduler /\ [][NextTM]_vars

\* The loop tasks alone (with stop/start and cancel_all): daily and ad-hoc
\* tasks never read or write _loop_tasks.
NextLoop ==
    \/ \E i \in TaskIds : LoopFirstStep(i)
    \/ \E i \in TaskIds, ok \in BOOLEAN : LoopInitialRunEnds(i, ok)
    \/ \E i \in TaskIds : LoopSleepElapses(i)
    \/ \E i \in TaskIds, ok \in BOOLEAN : LoopRunEnds(i, ok)
    \/ \E i \in TaskIds : TaskCancelled(i)
    \/ \E i \in TaskIds : DoneCallback(i)
    \/ \E n \in Names : stop_loop_task(n)
    \/ \E n \in Names, imm \in BOOLEAN :
          created < MaxLoopTasks /\ start_loop_task(n, imm)
    \/ CancelAllBegin
    \/ CancelAllReturn

SpecLoop == InitScheduler /\ [][NextLoop]_vars

\* The loop tasks again, with the event loop's scheduling: a timer that is
\* due fires, so the asyncio.sleep of a task that is not cancelled returns.
\* Nothing forces a factory to return, nor a caller to start or stop tasks.
NextLoopFair ==
    \/ \E i \in TaskIds : LoopFirstStep(i)
    \/ \E i \in TaskIds, ok \in BOOLEAN : LoopInitialRunEnds(i, ok)
    \/ \E i \in TaskIds : LoopSleepElapses(i)
    \/ \E i \in TaskIds, ok \in BOOLEAN : LoopRunEnds(i, ok)
    \/ \E i \in TaskIds : TaskCancelled(i)
    \/ \E i \in TaskIds : DoneCallback(i)
    \/ \E n \in Names : stop_loop_task(n)
    \/ \E n \in Names, imm \in BOOLEAN :
          created < MaxFairLoopTasks /\ start_loop_task(n, imm)
    \/ CancelAllBegin
    \/ CancelAllReturn

FairLoop == \A i \in TaskIds : WF_vars(LoopSleepElapses(i))

SpecLoopFair == InitScheduler /\ [][NextLoopFair]_vars /\ FairLoop

\* The daily tasks alone (with the clock, stop/start and cancel_all): loop
\* and ad-hoc tasks never read or write _daily_tasks or _last_run_dates.
NextDaily ==
    \/ \E i \in TaskIds : DailyFirstStep(i)
    \/ \E i \in TaskIds, ok \in BOOLEAN : DailyInitialRunEnds(i, ok)
    \/ \E i \in TaskIds : DailyCheck(i)
    \/ \E i \in TaskIds, ok \in BOOLEAN : DailyRunEnds(i, ok)
    \/ \E i \in TaskIds : TaskCancelled(i)
    \/ \E i \in TaskIds : DoneCallback(i)
    \/ \E n \in Names : stop_daily_task(n)
    \/ \E n \in Names, imm \in BOOLEAN :
          created < MaxDailyTasks /\ start_daily_task(n, imm)
    \/ CancelAllBegin
    \/ CancelAllReturn
    \/ DateChanges

SpecDaily == InitScheduler /\ [][NextDaily]_vars

\* ==========================================================================
\* The generation pipeline and the concurrency semaphore (src/main.py)
\* ==========================================================================
\* ConfigManager.load: max_concurrent_tasks = max(1, cfg)
MaxConcurrent(cfg) == Max(1, cfg)

\* (mutant) the semaphore is created one unit too large.
SemaphoreValueOffByOne(m) == m + 1

\* initialize: self.semaphore = asyncio.Semaphore(max_concurrent_tasks)
SemaphoreValue(m) == m

\* initialize, for every configuration ConfigManager.load can produce.
InitGate ==
    /\ configured \in BOOLEAN
    /\ \E cfg \in 0..MaxCapacity : capacity = MaxConcurrent(cfg)
    /\ sem_value = SemaphoreValue(capacity)
    /\ sem_waiters = <<>>
    /\ pipe = [p \in PipeIds |-> NoPipe]

\* Semaphore.locked(): no unit left, or a waiter that is not cancelled.
Locked ==
    \/ sem_value = 0
    \/ \E k \in 1..Len(sem_waiters) : pipe[sem_waiters[k]].fut # "cancelled"

\* Semaphore._wake_up_next() on value v, deque w and pipelines pp: the first
\* waiter whose future is not done gets a unit and its future a result.
WakeUpNext(v, w, pp) ==
    LET ks == {k \in 1..Len(w) : pp[w[k]].fut = "pending"} IN
    IF ks = {} THEN [v |-> v, pp |-> pp]
    ELSE LET k == CHOOSE x \in ks : \A y \in ks : x <= y IN
         [v |-> v - 1, pp |-> [pp EXCEPT ![w[k]].fut = "set"]]

\* deque.remove(fut)
RemoveWaiter(w, p) == SelectSeq(w, LAMBDA x : x # p)

\* Semaphore.release() by pipeline p (the __aexit__ of `async with`), after
\* which the task is finished.
ReleaseAndFinish(p) ==
    LET pp == [pipe EXCEPT ![p].unit = FALSE, ![p].releases = @ + 1,
                           ![p].pc = "done", ![p].cancelling = FALSE,
                           ![p].cancelled = pipe[p].cancelling]
        r == WakeUpNext(sem_value + 1, sem_waiters, pp)
    IN  /\ sem_value' = r.v
        /\ pipe' = r.pp
        /\ UNCHANGED sem_waiters

\* _do_generate_and_send up to its first await: self.generator.generate is
\* entered, which calls the backend.
EnterGenerate(pp, p) ==
    [pp EXCEPT ![p].pc = "generate",
               ![p].invoked = IF pp[p].unit THEN "with_unit" ELSE "without_unit"]

\* create_background_task(self._generate_and_send_image_async(...)): the
\* task exists and has not run yet.
SubmitPipeline(p) ==
    /\ pipe[p].pc = "absent"
    /\ \A q \in PipeIds : q < p => pipe[q].pc # "absent"
    /\ pipe' = [pipe EXCEPT ![p].pc = "new"]
    /\ UNCHANGED <<configured, capacity, sem_value, sem_waiters>>
    /\ UNCHANGED notGateVars

\* (mutant) the pipeline calls _do_generate_and_send without the semaphore
\* (the branch of line 219 taken unconditionally).
PipelineStartUngated(p) ==
    /\ pipe[p].pc = "new" /\ ~pipe[p].cancelling
    /\ IF ~configured
       THEN pipe' = [pipe EXCEPT ![p].pc = "done"]
       ELSE pipe' = EnterGenerate([pipe EXCEPT ![p].sanitized = TRUE], p)
    /\ UNCHANGED <<configured, capacity, sem_value, sem_waiters>>
    /\ UNCHANGED notGateVars

\* The first segment of _generate_and_send_image_async: the generator check,
\* the capability clean-up, then `async with self.semaphore`, which either
\* takes a unit at once and goes on into _do_generate_and_send, or queues a
\* future and suspends. self.semaphore is None only when self.generator is
\* None (initialize), where line 178 has already returned.
PipelineStart(p) ==
    /\ pipe[p].pc = "new" /\ ~pipe[p].cancelling
    /\ IF ~configured
       THEN /\ pipe' = [pipe EXCEPT ![p].pc = "done"]
            /\ UNCHANGED <<sem_value, sem_waiters>>
       ELSE LET pp == [pipe EXCEPT ![p].sanitized = TRUE] IN
            IF ~Locked
            THEN /\ sem_value' = sem_value - 1
                 /\ pipe' = EnterGenerate([pp EXCEPT ![p].unit = TRUE,
                                                     ![p].acquires = @ + 1], p)
                 /\ UNCHANGED sem_waiters
            ELSE /\ sem_waiters' = Append(sem_waiters, p)
                 /\ pipe' = [pp EXCEPT ![p].pc = "acquire", ![p].fut = "pending"]
                 /\ UNCHANGED sem_value
    /\ UNCHANGED <<configured, capacity>>
    /\ UNCHANGED notGateVars

\* Semaphore.acquire resumes with the future's result: the future leaves the
\* deque, a spare unit wakes the next waiter, and the pipeline goes on into
\* _do_generate_and_send.
AcquireResumes(p) ==
    /\ pipe[p].pc = "acquire" /\ pipe[p].fut = "set" /\ ~pipe[p].cancelling
    /\ LET w == RemoveWaiter(sem_waiters, p)
           pp == [pipe EXCEPT ![p].fut = "none", ![p].unit = TRUE,
                              ![p].acquires = @ + 1]
           r == IF sem_value > 0 THEN WakeUpNext(sem_value, w, pp)
                ELSE [v |-> sem_value, pp |-> pp]
       IN  /\ sem_waiters' = w
           /\ sem_value' = r.v
           /\ pipe' = EnterGenerate(r.pp, p)
    /\ UNCHANGED <<configured, capacity>>
    /\ UNCHANGED notGateVars

\* self.generator.generate returns a result (images or an error), and the
\* pipeline suspends in context.send_message; or it raises, and the
\* exception leaves `async with`, which releases the unit.
GenerateReturns(p, outcome) ==
    /\ pipe[p].pc = "generate" /\ ~pipe[p].cancelling
    /\ IF outcome = "raise"
       THEN ReleaseAndFinish(p)
       ELSE /\ pipe' = [pipe EXCEPT ![p].pc = "send"]
            /\ UNCHANGED <<sem_value, sem_waiters>>
    /\ UNCHANGED <<configured, capacity>>
    /\ UNCHANGED notGateVars

\* (mutant) the section is left without releasing the unit.
SendReturnsNoRelease(p) ==
    /\ pipe[p].pc = "send" /\ ~pipe[p].cancelling
    /\ pipe' = [pipe EXCEPT ![p].pc = "done"]
    /\ UNCHANGED <<configured, capacity, sem_value, sem_waiters>>
    /\ UNCHANGED notGateVars

\* context.send_message returns or raises: _do_generate_and_send ends and
\* `async with` releases the unit.
SendReturns(p) ==
    /\ pipe[p].pc = "send" /\ ~pipe[p].cancelling
    /\ ReleaseAndFinish(p)
    /\ UNCHANGED <<configured, capacity>>
    /\ UNCHANGED notGateVars

\* cancel_all: task.cancel() on a pipeline task that is not done. A pending
\* acquire future is cancelled with it; otherwise the task is marked and
\* gets the CancelledError at its next step.
RequestCancel(p) ==
    /\ pipe[p].pc \in {"new", "acquire", "generate", "send"}
    /\ ~pipe[p].cancelling
    /\ pipe' = [pipe EXCEPT ![p].cancelling = TRUE,
                            ![p].fut = IF @ = "pending" THEN "cancelled" ELSE @]
    /\ UNCHANGED <<configured, capacity, sem_value, sem_waiters>>
    /\ UNCHANGED notGateVars

\* (mutant) a cancelled pipeline ends without `async with` releasing.
CancelDeliveredNoRelease(p) ==
    /\ pipe[p].cancelling
    /\ pipe' = [pipe EXCEPT ![p].pc = "done", ![p].cancelling = FALSE,
                            ![p].cancelled = TRUE, ![p].fut = "none"]
    /\ sem_waiters' = RemoveWaiter(sem_waiters, p)
    /\ UNCHANGED <<configured, capacity, sem_value>>
    /\ UNCHANGED notGateVars

\* The CancelledError reaches the pipeline: a task that never ran just ends;
\* inside Semaphore.acquire the future leaves the deque and a unit already
\* granted is given back; inside `async with` the unit is released.
CancelDelivered(p) ==
    /\ pipe[p].cancelling
    /\ CASE pipe[p].pc = "new" ->
              /\ pipe' = [pipe EXCEPT ![p].pc = "done", ![p].cancelling = FALSE,
                                      ![p].cancelled = TRUE]
              /\ UNCHANGED <<sem_value, sem_waiters>>
         [] pipe[p].pc = "acquire" ->
              LET w == RemoveWaiter(sem_waiters, p)
                  pp == [pipe EXCEPT ![p].pc = "done", ![p].cancelling = FALSE,
                                     ![p].cancelled = TRUE, ![p].fut = "none"]
                  r == IF pipe[p].fut # "cancelled"
                       THEN WakeUpNext(sem_value + 1, w, pp)
                       ELSE [v |-> sem_value, pp |-> pp]
              IN  /\ sem_waiters' = w
                  /\ sem_value' = r.v
                  /\ pipe' = r.pp
         [] OTHER -> ReleaseAndFinish(p)
    /\ UNCHANGED <<configured, capacity>>
    /\ UNCHANGED notGateVars

NextGate ==
    \/ \E p \in PipeIds : SubmitPipeline(p)
    \/ \E p \in PipeIds : PipelineStart(p)
    \/ \E p \in PipeIds : AcquireResumes(p)
    \/ \E p \in PipeIds, o \in {"result", "raise"} : GenerateReturns(p, o)
    \/ \E p \in PipeIds : SendReturns(p)
    \/ \E p \in PipeIds : RequestCancel(p)
    \/ \E p \in PipeIds : CancelDelivered(p)

\* The plugin as initialized, the adapter and the TaskManager at rest.
InitPlugin ==
    InitGenIdle /\ InitTM /\ InitGate /\ InitCacheIdle /\ InitDispIdle /\ InitStartup
    /\ InitSanIdle /\ InitUsageIdle

SpecGate == InitPlugin /\ [][NextGate]_vars

\* Every step of a task that is ready to run is eventually run by the event
\* loop, and awaited backend calls and sends eventually return. Submissions
\* and cancellations are not forced.
FairGate ==
    /\ \A p \in PipeIds : WF_vars(PipelineStart(p))
    /\ \A p \in PipeIds : WF_vars(AcquireResumes(p))
    /\ \A p \in PipeIds : WF_vars(\E o \in {"result", "raise"} : GenerateReturns(p, o))
    /\ \A p \in PipeIds : WF_vars(SendReturns(p))
    /\ \A p \in PipeIds : WF_vars(CancelDelivered(p))

SpecGateFair == InitPlugin /\ [][NextGate]_vars /\ FairGate

\* ==========================================================================
\* ImageProcessor.cleanup_cache (src/core/image_processor.py)
\* ==========================================================================
\* ConfigManager.load: max_cache_count = max(1, cfg)
MaxCacheCountOf(cfg) == Max(1, cfg)

\* The directories a cleanup can find: entries are regular files with a
\* modification time, or something else (a sub-directory). Entries are
\* numbered in the order os.listdir returns them.
Entries ==
    {NoEntry, [kind |-> "dir", mtime |-> 0]}
        \cup {[kind |-> "file", mtime |-> t] : t \in 0..MaxMtime}

InitCache ==
    /\ cache_dir_exists \in BOOLEAN
    /\ cache_entries \in [EntryIds -> Entries]
    /\ ~cache_dir_exists => cache_entries = [e \in EntryIds |-> NoEntry]
    /\ \E cfg \in 0..MaxCacheCount : _max_cache_count = MaxCacheCountOf(cfg)
    /\ cleanup = NoCleanup

\* cleanup_cache, lines 162-166: the (path, mtime) pairs of the regular files.
RegularFiles(entries) == {e \in EntryIds : entries[e].kind = "file"}

\* (mutant) the list is sorted newest first.
SortPositionNewestFirst(entries, e) ==
    Cardinality({g \in RegularFiles(entries) :
                    \/ entries[g].mtime > entries[e].mtime
                    \/ entries[g].mtime = entries[e].mtime /\ g < e})

\* files.sort(key=lambda x: x[1]): the index of file e in the sorted list
\* (the sort is stable, so equal times keep the listing order).
SortPosition(entries, e) ==
    Cardinality({g \in RegularFiles(entries) :
                    \/ entries[g].mtime < entries[e].mtime
                    \/ entries[g].mtime = entries[e].mtime /\ g < e})

\* (mutant) the directory is trimmed to one file less than the maximum.
ToDeleteBelowMaximum(entries) ==
    LET n == Cardinality(RegularFiles(entries)) IN
    IF n > _max_cache_count - 1
    THEN {e \in RegularFiles(entries) :
             SortPosition(entries, e) < n - (_max_cache_count - 1)}
    ELSE {}

\* files[: len(files) - self._max_cache_count] when len(files) exceeds the
\* maximum, else nothing.
ToDelete(entries) ==
    LET n == Cardinality(RegularFiles(entries)) IN
    IF n > _max_cache_count
    THEN {e \in RegularFiles(entries) : SortPosition(entries, e) < n - _max_cache_count}
    ELSE {}

\* (mutant) the first os.remove that raises ends the loop and the OSError
\* leaves cleanup_cache: the files after it in the sorted list stay.
cleanup_cacheAborts(F) ==
    /\ F \subseteq ToDelete(cache_entries)
    /\ IF ~cache_dir_exists
       THEN /\ F = {}
            /\ UNCHANGED cache_entries
       ELSE cache_entries' = [e \in EntryIds |->
                                IF /\ e \in ToDelete(cache_entries)
                                   /\ \A f \in F : SortPosition(cache_entries, e)
                                                     < SortPosition(cache_entries, f)
                                THEN NoEntry
                                ELSE cache_entries[e]]
    /\ cleanup' = [ran |-> TRUE, before |-> cache_entries, failed |-> F,
                   raised |-> F # {}]
    /\ UNCHANGED <<cache_dir_exists, _max_cache_count>>
    /\ UNCHANGED notCacheVars

\* cleanup_cache: os.remove of every file to delete; a remove that raises
\* OSError (the files in F) is logged and skipped, and the method returns.
cleanup_cache(F) ==
    /\ F \subseteq ToDelete(cache_entries)
    /\ IF ~cache_dir_exists
       THEN /\ F = {}
            /\ UNCHANGED cache_entries
       ELSE cache_entries' = [e \in EntryIds |->
                                IF e \in ToDelete(cache_entries) \ F THEN NoEntry
                                ELSE cache_entries[e]]
    /\ cleanup' = [ran |-> TRUE, before |-> cache_entries, failed |-> F,
                   raised |-> FALSE]
    /\ UNCHANGED <<cache_dir_exists, _max_cache_count>>
    /\ UNCHANGED notCacheVars

\* save_generated_image: a new file appears in the directory (nothing is
\* written when the directory is missing: the open fails and is caught).
save_generated_image(e, t) ==
    /\ cache_dir_exists
    /\ cache_entries[e].kind = "none"
    /\ cache_entries' = [cache_entries EXCEPT ![e] = [kind |-> "file", mtime |-> t]]
    /\ cleanup' = NoCleanup
    /\ UNCHANGED <<cache_dir_exists, _max_cache_count>>
    /\ UNCHANGED notCacheVars

NextCache ==
    \/ \E F \in SUBSET EntryIds : cleanup_cache(F)
    \/ \E e \in EntryIds, t \in 0..MaxMtime : save_generated_image(e, t)

\* The cache directory as found, everything else at rest.
InitJanitor ==
    InitGenIdle /\ InitTM /\ InitGateIdle /\ InitCache /\ InitDispIdle /\ InitStartup
    /\ InitSanIdle /\ InitUsageIdle

SpecCache == InitJanitor /\ [][NextCache]_vars

\* ==========================================================================
\* ImageGenerator.generate, the dispatcher (src/core/generator.py)
\* ==========================================================================
AdapterMissingError == "adapter not initialized"

\* str(exc) of the exceptions an adapter's generate can raise: empty for
\* e.g. asyncio.TimeoutError(), a text otherwise.
ExcMessages == {"", "boom"}

InitDisp ==
    /\ adapter_set \in BOOLEAN
    /\ dpc = [c \in DispatchCallers |-> "idle"]
    /\ dresult = [c \in DispatchCallers |-> NoDispatch]

\* generate, lines 36-42: the adapter check, then the reference images are
\* converted (an await) when there are any, then the adapter is called.
DispatcherGenerate(c, hasImages) ==
    /\ dpc[c] = "idle"
    /\ IF ~adapter_set
       THEN /\ dresult' = [dresult EXCEPT ![c] =
                             [images |-> FALSE, error |-> AdapterMissingError,
                              cause |-> "no_adapter"]]
            /\ dpc' = [dpc EXCEPT ![c] = "returned"]
       ELSE /\ dpc' = [dpc EXCEPT ![c] = IF hasImages THEN "convert" ELSE "adapter"]
            /\ UNCHANGED dresult
    /\ UNCHANGED adapter_set
    /\ UNCHANGED <<genVars, notDispVars>>

\* convert_images_batch returns.
ConvertDone(c) ==
    /\ dpc[c] = "convert"
    /\ dpc' = [dpc EXCEPT ![c] = "adapter"]
    /\ UNCHANGED <<adapter_set, dresult>>
    /\ UNCHANGED <<genVars, notDispVars>>

\* `return await self.adapter.generate(patched_request)`: the adapter's
\* result is returned as it is.
AdapterReturned(c) ==
    /\ dpc[c] = "adapter" /\ gpc[c] = "returned"
    /\ dresult' = [dresult EXCEPT ![c] =
                     [images |-> result[c].images, error |-> result[c].error,
                      cause |-> "adapter_result"]]
    /\ dpc' = [dpc EXCEPT ![c] = "returned"]
    /\ UNCHANGED adapter_set
    /\ UNCHANGED <<genVars, notDispVars>>

\* (mutant) no try/except around the adapter call: the exception escapes.
OnAdapterExceptionEscapes(msg) ==
    [pc |-> "raised", res |-> NoDispatch]

\* except Exception as exc: return GenerationResult(images=None, error=str(exc))
OnAdapterException(msg) ==
    [pc |-> "returned",
     res |-> [images |-> FALSE, error |-> msg, cause |-> "adapter_exception"]]

\* The adapter's generate (abstract in BaseImageAdapter) raises an Exception
\* whose str is msg.
AdapterRaises(c, msg) ==
    /\ dpc[c] = "adapter" /\ gpc[c] = "idle"
    /\ dpc' = [dpc EXCEPT ![c] = OnAdapterException(msg).pc]
    /\ dresult' = [dresult EXCEPT ![c] = OnAdapterException(msg).res]
    /\ UNCHANGED adapter_set
    /\ UNCHANGED <<genVars, notDispVars>>

\* The caller of the dispatcher has consumed the result.
DispatchCallerContinues(c) ==
    /\ dpc[c] = "returned" /\ gpc[c] = "idle"
    /\ dpc' = [dpc EXCEPT ![c] = "idle"]
    /\ dresult' = [dresult EXCEPT ![c] = NoDispatch]
    /\ UNCHANGED adapter_set
    /\ UNCHANGED <<genVars, notDispVars>>

\* The dispatcher in front of the retrying adapter call: the adapter's
\* generate runs only as called by the dispatcher.
NextDispatch ==
    \/ \E c \in DispatchCallers, hasImages \in BOOLEAN : DispatcherGenerate(c, hasImages)
    \/ \E c \in DispatchCallers : ConvertDone(c)
    \/ \E c \in DispatchCallers : dpc[c] = "adapter" /\ GenerateCall(c)
    \/ \E c \in DispatchCallers : AttemptSucceeds(c)
    \/ \E c \in DispatchCallers, err \in AttemptErrors : AttemptFailsRetry(c, err)
    \/ \E c \in DispatchCallers : BackoffElapsed(c)
    \/ \E c \in DispatchCallers, err \in AttemptErrors : AttemptFailsFinal(c, err)
    \/ \E c \in DispatchCallers : AdapterReturned(c)
    \/ \E c \in DispatchCallers, msg \in ExcMessages : AdapterRaises(c, msg)
    \/ \E c \in DispatchCallers : dpc[c] = "returned" /\ CallerContinues(c)
    \/ \E c \in DispatchCallers : DispatchCallerContinues(c)

InitDispatcher ==
    InitGen /\ InitTM /\ InitGateIdle /\ InitCacheIdle /\ InitDisp /\ InitStartup
    /\ InitSanIdle /\ InitUsageIdle

SpecDispatch == InitDispatcher /\ [][NextDispatch]_vars

\* ==========================================================================
\* TaskManager: startup tasks (src/core/task_manager.py)
\* ==========================================================================
\* register_startup_task(name, coro_func): factories are named by their
\* position in the list.
register_startup_task ==
    /\ Len(_startup_tasks) < MaxStartup
    /\ _startup_tasks' = Append(_startup_tasks, Len(_startup_tasks) + 1)
    /\ UNCHANGED <<_startup_completed, run>>
    /\ UNCHANGED notStartVars

\* run_startup_tasks() is called (initialize wraps it in create_task): the
\* coroutine exists and has not run yet.
RunStartupCalled(r) ==
    /\ run[r].pc = "absent"
    /\ \A q \in RunIds : q < r => run[q].pc # "absent"
    /\ run' = [run EXCEPT ![r].pc = "new"]
    /\ UNCHANGED <<_startup_tasks, _startup_completed>>
    /\ UNCHANGED notStartVars

\* The for loop of run_startup_tasks moves to position i: the factory there
\* is started and awaited.
StartFactory(rr, i) ==
    [rr EXCEPT !.pc = "factory", !.idx = i,
               !.running = @ \cup {_startup_tasks[i]},
               !.started = Append(@, _startup_tasks[i])]

\* (mutant) run_startup_tasks without its _startup_completed guard.
RunStartupBeginsNoGuard(r) ==
    /\ run[r].pc = "new"
    /\ IF _startup_tasks = <<>>
       THEN /\ _startup_completed' = TRUE
            /\ run' = [run EXCEPT ![r].pc = "done", ![r].outcome = "completed",
                                  ![r].lateCall = _startup_completed]
       ELSE /\ run' = [run EXCEPT ![r] =
                         StartFactory([@ EXCEPT !.lateCall = _startup_completed], 1)]
            /\ UNCHANGED _startup_completed
    /\ UNCHANGED _startup_tasks
    /\ UNCHANGED notStartVars

\* run_startup_tasks, lines 113-129: the guard, the empty list, else the
\* first factory is started.
RunStartupBegins(r) ==
    /\ run[r].pc = "new"
    /\ IF _startup_completed
       THEN /\ run' = [run EXCEPT ![r].pc = "done", ![r].outcome = "skipped",
                                  ![r].lateCall = TRUE]
            /\ UNCHANGED _startup_completed
       ELSE IF _startup_tasks = <<>>
       THEN /\ _startup_completed' = TRUE
            /\ run' = [run EXCEPT ![r].pc = "done", ![r].outcome = "completed"]
       ELSE /\ run' = [run EXCEPT ![r] = StartFactory(@, 1)]
            /\ UNCHANGED _startup_completed
    /\ UNCHANGED _startup_tasks
    /\ UNCHANGED notStartVars

\* (mutant) no try/except around the factory: a failure ends the run.
FactoryEndsAbortsOnFailure(r, ok) ==
    /\ run[r].pc = "factory"
    /\ LET f == _startup_tasks[run[r].idx]
           rr == [run[r] EXCEPT !.running = @ \ {f},
                                !.failed = IF ok THEN @ ELSE @ \cup {f}]
       IN  IF ok /\ run[r].idx < Len(_startup_tasks)
           THEN /\ run' = [run EXCEPT ![r] = StartFactory(rr, run[r].idx + 1)]
                /\ UNCHANGED _startup_completed
           ELSE /\ run' = [run EXCEPT ![r] =
                             [rr EXCEPT !.pc = "done", !.outcome = "completed",
                                        !.regAtEnd = Len(_startup_tasks)]]
                /\ _startup_completed' = (ok \/ _startup_completed)
    /\ UNCHANGED _startup_tasks
    /\ UNCHANGED notStartVars

\* The awaited factory returns (ok) or raises an Exception, which is caught
\* and logged: the loop goes on to the next registered factory (the list
\* iterator sees factories appended meanwhile), or ends and sets the flag.
FactoryEnds(r, ok) ==
    /\ run[r].pc = "factory"
    /\ LET f == _startup_tasks[run[r].idx]
           rr == [run[r] EXCEPT !.running = @ \ {f},
                                !.failed = IF ok THEN @ ELSE @ \cup {f}]
       IN  IF run[r].idx < Len(_startup_tasks)
           THEN /\ run' = [run EXCEPT ![r] = StartFactory(rr, run[r].idx + 1)]
                /\ UNCHANGED _startup_completed
           ELSE /\ run' = [run EXCEPT ![r] =
                             [rr EXCEPT !.pc = "done", !.outcome = "completed",
                                        !.regAtEnd = Len(_startup_tasks)]]
                /\ _startup_completed' = TRUE
    /\ UNCHANGED _startup_tasks
    /\ UNCHANGED notStartVars

\* The task running run_startup_tasks is cancelled (cancel_all): the
\* CancelledError is not an Exception, so it ends the run where it is.
RunStartupCancelled(r) ==
    /\ run[r].pc \in {"new", "factory"}
    /\ run' = [run EXCEPT ![r].pc = "done", ![r].outcome = "cancelled",
                          ![r].running = {}]
    /\ UNCHANGED <<_startup_tasks, _startup_completed>>
    /\ UNCHANGED notStartVars

NextStartup ==
    \/ register_startup_task
    \/ \E r \in RunIds : RunStartupCalled(r)
    \/ \E r \in RunIds : RunStartupBegins(r)
    \/ \E r \in RunIds, ok \in BOOLEAN : FactoryEnds(r, ok)
    \/ \E r \in RunIds : RunStartupCancelled(r)

InitStartupRun ==
    InitGenIdle /\ InitTM /\ InitGateIdle /\ InitCacheIdle /\ InitDispIdle /\ InitStartup
    /\ InitSanIdle /\ InitUsageIdle

SpecStartup == InitStartupRun /\ [][NextStartup]_vars

\* ==========================================================================
\* The sanitization of a request (src/main.py, _generate_and_send_image_async)
\* ==========================================================================

\* SUPPORTED_ASPECT_RATIOS and SUPPORTED_RESOLUTIONS of core/constants.py.
SUPPORTED_ASPECT_RATIOS == {AutoRatio, "1:1", "16:9"}
SUPPORTED_RESOLUTIONS == {BaselineResolution, "2K", "4K"}

ALLOWED_ASPECT_RATIOS == SUPPORTED_ASPECT_RATIOS
ALLOWED_RESOLUTIONS == SUPPORTED_RESOLUTIONS

validate_aspect_ratio(value) ==
    IF value = NoString THEN NoString
    ELSE IF value \in ALLOWED_ASPECT_RATIOS THEN value ELSE NoString

validate_resolution(value) ==
    IF value = NoString THEN NoString
    ELSE IF value \in ALLOWED_RESOLUTIONS THEN value ELSE NoString

\* The capability sets an adapter can declare: every adapter generates from
\* text, the other three flags are independent.
CapabilitySets ==
    {{"TEXT_TO_IMAGE"} \cup c :
        c \in SUBSET {"IMAGE_TO_IMAGE", "ASPECT_RATIO", "RESOLUTION"}}

\* The arguments a caller can pass: images_data is None or a list of
\* 0..MaxImages images; the two strings are a supported value, the default
\* or a value outside the supported set ("7:5", "8K", the empty string).
ImagesDataValues == {ImagesNone} \cup (0..MaxImages)
AspectRatioValues == {AutoRatio, "1:1", "16:9", "7:5", ""}
ResolutionValues == {BaselineResolution, "2K", "4K", "8K", ""}

\* Truth value of images_data: None and the empty list are false.
Truthy(images_data) == images_data # ImagesNone /\ images_data > 0

\* Lines 182-216 with every coercion left out: the arguments go to the
\* validators as the caller passed them.
SanitizeNoCoercion(caps, images_data, aspect_ratio, resolution) ==
    LET va == validate_aspect_ratio(aspect_ratio)
        final_ar == IF va = "" \/ va = AutoRatio THEN NoString ELSE va
        final_res == validate_resolution(resolution)
        iterated == Truthy(images_data)
    IN  [images |-> IF iterated THEN images_data ELSE 0,
         aspect_ratio |-> final_ar,
         resolution |-> final_res,
         raised |-> iterated /\ images_data = ImagesNone]

\* Lines 182-216: the three capability checks, the two validators and the
\* construction of the images list. len() and the for loop raise TypeError
\* on None; `raised` records whether one of them was evaluated on None.
Sanitize(caps, images_data, aspect_ratio, resolution) ==
    LET drop == "IMAGE_TO_IMAGE" \notin caps /\ Truthy(images_data)
        images1 == IF drop THEN ImagesNone ELSE images_data
        ar1 == IF "ASPECT_RATIO" \notin caps /\ aspect_ratio # AutoRatio
               THEN AutoRatio ELSE aspect_ratio
        res1 == IF "RESOLUTION" \notin caps /\ resolution # BaselineResolution
                THEN BaselineResolution ELSE resolution
        va == validate_aspect_ratio(ar1)
        \* `validate_aspect_ratio(aspect_ratio) or None`, then the sentinel
        \* is replaced by None
        final_ar == IF va = "" \/ va = AutoRatio THEN NoString ELSE va
        final_res == validate_resolution(res1)
        iterated == Truthy(images1)
    IN  [images |-> IF iterated THEN images1 ELSE 0,
         aspect_ratio |-> final_ar,
         resolution |-> final_res,
         raised |-> \/ drop /\ images_data = ImagesNone
                    \/ iterated /\ images1 = ImagesNone]

\* A command handler submits _generate_and_send_image_async as a task.
GenerateAndSendCalled(images_data, aspect_ratio, resolution) ==
    /\ spc = "idle"
    /\ call_args' = [images_data |-> images_data, aspect_ratio |-> aspect_ratio,
                     resolution |-> resolution]
    /\ dispatched' = NoDispatched
    /\ spc' = "called"
    /\ UNCHANGED capabilities
    /\ UNCHANGED notSanVars

\* The task runs from its start to the call of _do_generate_and_send: the
\* code in between has no await.
SanitizeAndDispatch ==
    /\ spc = "called"
    /\ dispatched' = Sanitize(capabilities, call_args.images_data,
                              call_args.aspect_ratio, call_args.resolution)
    /\ spc' = "dispatched"
    /\ UNCHANGED <<capabilities, call_args>>
    /\ UNCHANGED notSanVars

\* _do_generate_and_send returns and the task ends.
GenerateAndSendEnds ==
    /\ spc = "dispatched"
    /\ spc' = "idle"
    /\ call_args' = NoArgs
    /\ dispatched' = NoDispatched
    /\ UNCHANGED capabilities
    /\ UNCHANGED notSanVars

NextSanitize ==
    \/ \E i \in ImagesDataValues, a \in AspectRatioValues, r \in ResolutionValues :
          GenerateAndSendCalled(i, a, r)
    \/ SanitizeAndDispatch
    \/ GenerateAndSendEnds

\* The adapter declares any of the capability sets.
InitSan ==
    /\ capabilities \in CapabilitySets
    /\ call_args = NoArgs
    /\ dispatched = NoDispatched
    /\ spc = "idle"

InitSanitizer ==
    InitGenIdle /\ InitTM /\ InitGateIdle /\ InitCacheIdle /\ InitDispIdle /\ InitStartup
    /\ InitSan /\ InitUsageIdle

SpecSanitize == InitSanitizer /\ [][NextSanitize]_vars

\* ==========================================================================
\* UsageManager and the generation command (src/core/usage_manager.py,
\* src/main.py)
\* ==========================================================================
\* ConfigManager.load: the user limits as the configuration gives them.
InitUsage ==
    /\ \E rate \in 0..MaxRateLimit, enabled \in BOOLEAN, cfg \in 0..MaxDailyLimit :
          _settings = [rate_limit_seconds |-> Max(0, rate),
                       enable_daily_limit |-> enabled,
                       daily_limit_count |-> Max(1, cfg)]
    /\ _usage_data = [d \in 0..MaxDate |-> [u \in Users |-> 0]]
    /\ _user_request_timestamps = [u \in Users |-> 0]
    /\ now = MaxRateLimit
    /\ cmd = [c \in 1..MaxCommands |-> NoCmd]

\* check_rate_limit, step 1: the request comes too soon after the last one
\* that was let through.
RateLimited(u) ==
    /\ _settings.rate_limit_seconds > 0
    /\ now - _user_request_timestamps[u] < _settings.rate_limit_seconds

\* What check_rate_limit(user_id) returns: True ("ok") or one of its two
\* messages; step 2 rejects when today's recorded count has reached the
\* limit.
check_rate_limit(u) ==
    IF RateLimited(u) THEN "rate"
    ELSE IF /\ _settings.enable_daily_limit
            /\ _usage_data[today][u] >= _settings.daily_limit_count
         THEN "daily"
    ELSE "ok"

\* record_usage(user_id): today's count of the user goes up by one when the
\* daily limit is enabled.
record_usage(u) ==
    IF _settings.enable_daily_limit
    THEN [_usage_data EXCEPT ![today][u] = @ + 1]
    ELSE _usage_data

\* generate_image_command: the limits are checked (a request that passes
\* the rate limit is stamped, whatever the daily limit says); a rejected
\* command answers with the message; an admitted one either ends early (no
\* prompt) or creates the background pipeline.
generate_image_command(c, u, hasPrompt) ==
    /\ cmd[c].pc = "absent"
    /\ \A q \in 1..MaxCommands : q < c => cmd[q].pc # "absent"
    /\ _user_request_timestamps' =
          IF _settings.rate_limit_seconds > 0 /\ ~RateLimited(u)
          THEN [_user_request_timestamps EXCEPT ![u] = now]
          ELSE _user_request_timestamps
    /\ cmd' = [cmd EXCEPT ![c] =
                 [pc |-> IF check_rate_limit(u) # "ok" THEN "rejected"
                         ELSE IF hasPrompt THEN "generating" ELSE "returned",
                  user |-> u, check |-> check_rate_limit(u)]]
    /\ UNCHANGED <<_settings, _usage_data, now>>
    /\ UNCHANGED notUsageVars

\* _do_generate_and_send after generator.generate returned: an error or an
\* empty image list ends the pipeline; images are counted, then sent.
_do_generate_and_send(c, outcome) ==
    /\ cmd[c].pc = "generating"
    /\ _usage_data' = IF outcome = "images" THEN record_usage(cmd[c].user)
                      ELSE _usage_data
    /\ cmd' = [cmd EXCEPT ![c].pc = "done"]
    /\ UNCHANGED <<_settings, _user_request_timestamps, now>>
    /\ UNCHANGED notUsageVars

\* time.time() advances.
TimePasses ==
    /\ now < 2 * MaxRateLimit
    /\ now' = now + 1
    /\ UNCHANGED <<_settings, _usage_data, _user_request_timestamps, cmd>>
    /\ UNCHANGED notUsageVars

NextUsage ==
    \/ \E c \in 1..MaxCommands, u \in Users, hasPrompt \in BOOLEAN :
          generate_image_command(c, u, hasPrompt)
    \/ \E c \in 1..MaxCommands, outcome \in {"error", "no_images", "images"} :
          _do_generate_and_send(c, outcome)
    \/ TimePasses
    \/ DateChanges

\* The plugin with its configured limits, everything else at rest.
InitLimiter ==
    InitGenIdle /\ InitTM /\ InitGateIdle /\ InitCacheIdle /\ InitDispIdle /\ InitStartup
    /\ InitSanIdle /\ InitUsage

SpecUsage == InitLimiter /\ [][NextUsage]_vars

\* ==========================================================================
\* The three registries under one name (src/main.py, _setup_tasks and
\* _setup_jimeng_token_task; src/core/task_manager.py)
\* ==========================================================================
\* A startup task, a daily task and a loop task are registered, started and
\* stopped under the same name; initialize invokes run_startup_tasks once.
\* The factories' failures change nothing in the registries and are left out.
NextNames ==
    \/ \E i \in TaskIds : LoopFirstStep(i)
    \/ \E i \in TaskIds : LoopInitialRunEnds(i, TRUE)
    \/ \E i \in TaskIds : DailyFirstStep(i)
    \/ \E i \in TaskIds : TaskCancelled(i)
    \/ \E i \in TaskIds : DoneCallback(i)
    \/ \E n \in Names : stop_loop_task(n)
    \/ \E n \in Names : created < MaxTasks /\ start_loop_task(n, TRUE)
    \/ \E n \in Names : stop_daily_task(n)
    \/ \E n \in Names : created < MaxTasks /\ start_daily_task(n, FALSE)
    \/ register_startup_task
    \/ RunStartupCalled(1)
    \/ RunStartupBegins(1)
    \/ FactoryEnds(1, TRUE)

SpecNames == InitScheduler /\ [][NextNames]_vars

\* ==========================================================================
\* Claims about the TaskManager (checked under SpecTM, SpecLoop and SpecDaily)
\* ==========================================================================
LoopInstances(n) ==
    {i \in TaskIds : task[i].kind = "loop" /\ task[i].name = n /\ Runnable(i)}

\* C1 (as stated): for every name, at most one loop-task instance created
\* under it is running at any time. An instance whose cancellation has been
\* requested is not counted as running, so the statement is the claim's
\* most lenient reading.
C1_AsStated ==
    \A n \in Names : Cardinality(LoopInstances(n)) <= 1

\* C2 (as stated): a daily task started with run_immediately=False on date D
\* (a replacement of a running daily task of the same name included) does
\* not execute its factory while the date is still D.
C2_AsStated ==
    \A i \in TaskIds :
        (task[i].kind = "daily" /\ Alive(i) /\ ~task[i].run_immediately) =>
            ~hist[i].ranOnStartDay

\* C21 (as stated): a daily task started with run_immediately=True on date D
\* whose initial execution has returned, recording D as last run, does not
\* execute its factory again from a periodic check while the date is still
\* D. A task whose initial execution raised is left out, so the statement
\* is the claim's most lenient reading.
C21_AsStated ==
    \A i \in TaskIds :
        (task[i].kind = "daily" /\ Alive(i) /\ task[i].run_immediately) =>
            ~hist[i].ranOnStartDay

\* The step in which a daily task's periodic run ends by raising.
DailyRunFails(i) ==
    /\ task[i].kind = "daily" /\ task[i].pc = "run"
    /\ task'[i].pc = "sleep" /\ hist'[i].lastFailed

\* C3 (as stated): when a daily task detects a date change and its factory
\* fails, the last-run date is still updated to the new current date.
C3_AsStated ==
    [][\A i \in TaskIds :
          DailyRunFails(i) =>
              _last_run_dates'[task[i].name] = task[i].current_date]_vars

\* C3 (amended): when a daily task detects a date change and its factory
\* fails, the last-run date is not updated: the failed run leaves the
\* last-run-date map as it was and the task goes back to its periodic wait.
C3_FailedRunKeepsDate ==
    [][\A i \in TaskIds :
          DailyRunFails(i) =>
              /\ _last_run_dates' = _last_run_dates
              /\ Alive(i)']_vars

C3_Witness ==
    \E i \in TaskIds :
        /\ created = 1 /\ task[i].kind = "daily" /\ task[i].pc = "sleep"
        /\ ~task[i].run_immediately
        /\ hist[i].lastFailed /\ ~hist[i].startDay
        /\ today = 1 /\ _last_run_dates[task[i].name] = 0

Registries ==
    <<background_tasks, _loop_tasks, _daily_tasks, _last_run_dates>>

\* C4: cancel_all requests cancellation of every tracked task, returns only
\* after every one of them has reached a terminal state, and on return the
\* tracked-task set, both registries and the last-run-date map are empty.
C4_CancelAll ==
    [][/\ (caPc = "idle" /\ caPc' # "idle") =>
              \A i \in background_tasks :
                  task'[i].pc = "done" \/ task'[i].must_cancel
       /\ (caPc # "returned" /\ caPc' = "returned") =>
              /\ \A i \in (IF caPc = "gather" THEN caAwaited ELSE background_tasks) :
                    task[i].pc = "done"
              /\ Registries' = <<{}, [n \in Names |-> None],
                                 [n \in Names |-> None],
                                 [n \in Names |-> NoDate]>>]_vars

C4_Witness ==
    /\ caPc = "returned" /\ caAwaited = {1, 2}
    /\ {task[i].kind : i \in caAwaited} = {"loop", "daily"}
    /\ \A i \in caAwaited : task[i].pc = "done"
    /\ background_tasks = {}


\* ==========================================================================
\* Claims about Jimeng2APIAdapter.generate (checked under SpecGen)
\* ==========================================================================
Returned(c) == gpc[c] = "returned"
Failed(c) == Returned(c) /\ ~result[c].images
Invocations(c) == invocations[c]

\* C5 (as stated): for a non-empty pool a generate call makes at most
\* max_retry_attempts backend invocations; when all fail it makes exactly
\* that many and its error is the retry prefix followed by the error that
\* the last attempt returned.
C5_AsStated ==
    \A c \in Callers :
        api_keys > 0 =>
            /\ Invocations(c) <= max_retry_attempts
            /\ Failed(c) =>
                  /\ Invocations(c) = max_retry_attempts
                  /\ result[c].error = RetryPrefix \o lastRawError[c]

\* C5 (amended): as above, but the text after the prefix is the last
\* attempt's error description, or the default description when that
\* description is empty.
C5_RetryBudget ==
    \A c \in Callers :
        api_keys > 0 =>
            /\ Invocations(c) <= max_retry_attempts
            /\ Failed(c) =>
                  /\ Invocations(c) = max_retry_attempts
                  /\ result[c].error =
                        RetryPrefix \o (IF lastRawError[c] = "" THEN DefaultError
                                        ELSE lastRawError[c])

C5_Witness ==
    \E c \in Callers :
        /\ Failed(c) /\ api_keys = 2 /\ max_retry_attempts = 5
        /\ Invocations(c) = 5 /\ lastRawError[c] = ""

\* C6: generate returns success on the first attempt that yields images, and
\* after that attempt the call makes no further backend invocation, key
\* rotation or backoff sleep.
C6_SuccessShortCircuits ==
    \A c \in Callers :
        successAt[c] # -1 =>
            /\ Returned(c) /\ result[c].images
            /\ Invocations(c) = successAt[c] + 1
            /\ rotations[c] = successAt[c]
            /\ \A k \in 1..Len(sleeps[c]) : sleeps[c][k].before <= successAt[c]

C6_Witness ==
    \E c \in Callers :
        /\ successAt[c] = 2 /\ Returned(c) /\ Len(sleeps[c]) >= 1
        /\ max_retry_attempts = 5

\* A call during which no other call moved the shared index, observed while
\* no other call is in flight.
RunsAlone(c) ==
    /\ ~interfered[c]
    /\ \A d \in Callers \ {c} : gpc[d] \in {"idle", "returned"}

\* C7 (as stated): in every generate call, whatever calls preceded it, the
\* credential index used on attempt i is i mod K (stated of the attempt the
\* call has reached, hence of every attempt in turn).
C7_AsStated ==
    \A c \in Callers :
        (api_keys > 0 /\ RunsAlone(c)) =>
            (Invocations(c) > 0 =>
                /\ Invocations(c) = attempt[c] + 1
                /\ usedKey[c] = attempt[c] % api_keys)

\* C7 (amended): in a generate call during which no other call rotates the
\* shared index, attempt i uses index (s + i) mod K, where s is the rotation
\* index the call found when it started (stated of the attempt the call has
\* reached, hence of every attempt in turn).
C7_KeyOfAttempt ==
    \A c \in Callers :
        (api_keys > 0 /\ ~interfered[c]) =>
            (Invocations(c) > 0 =>
                /\ Invocations(c) = attempt[c] + 1
                /\ usedKey[c] = (startIndex[c] + attempt[c]) % api_keys)

C7_Witness ==
    \E c \in Callers :
        /\ api_keys = 2 /\ ~interfered[c] /\ startIndex[c] = 1
        /\ attempt[c] = 2 /\ gpc[c] = "request" /\ usedKey[c] = 1

\* C8: a backoff sleep occurs immediately before attempt i exactly when i is
\* a positive multiple of K (and attempt i takes place); it lasts
\* min(2^floor(i/K), 10); no sleep occurs before any other attempt.
C8_BackoffSchedule ==
    \A c \in Callers :
        api_keys > 0 =>
            /\ \A k \in 1..Len(sleeps[c]) :
                  LET i == sleeps[c][k].before IN
                  /\ i > 0 /\ i % api_keys = 0
                  /\ sleeps[c][k].dur =
                        (IF Pow(2, i \div api_keys) < 10
                         THEN Pow(2, i \div api_keys) ELSE 10)
                  /\ \/ i < Invocations(c)
                     \/ i = Invocations(c) /\ gpc[c] = "backoff" /\ k = Len(sleeps[c])
                  /\ \A j \in 1..Len(sleeps[c]) : sleeps[c][j].before = i => j = k
            /\ \A i \in 1..(Invocations(c) - 1) :
                  (i % api_keys = 0) <=>
                      (\E k \in 1..Len(sleeps[c]) : sleeps[c][k].before = i)
            /\ gpc[c] = "backoff" =>
                  /\ Len(sleeps[c]) > 0
                  /\ sleeps[c][Len(sleeps[c])].before = Invocations(c)

C8_Witness ==
    \E c \in Callers :
        /\ api_keys = 1 /\ Invocations(c) = 5
        /\ \E k \in 1..Len(sleeps[c]) :
              sleeps[c][k].before = 4 /\ sleeps[c][k].dur = 10

\* C9 (as stated): with 3 attempts, 1 key and every attempt failing, the
\* generate call performs one backoff sleep.
C9_AsStated ==
    \A c \in Callers :
        (max_retry_attempts = 3 /\ api_keys = 1 /\ Failed(c)) =>
            Len(sleeps[c]) = 1

\* C9 (amended): with 3 attempts, 1 key and every attempt failing, the
\* generate call performs two backoff sleeps (before attempts 1 and 2).
C9_TwoSleeps ==
    \A c \in Callers :
        (max_retry_attempts = 3 /\ api_keys = 1 /\ Failed(c)) =>
            /\ Len(sleeps[c]) = 2
            /\ sleeps[c][1].before = 1
            /\ sleeps[c][2].before = 2

C9_Witness ==
    \E c \in Callers :
        max_retry_attempts = 3 /\ api_keys = 1 /\ Failed(c) /\ Invocations(c) = 3

\* C10: with an empty credential pool generate returns a failure at once:
\* no backend invocation, no backoff sleep, rotation index unchanged.
C10_EmptyPoolFailsFast ==
    \A c \in Callers :
        api_keys = 0 =>
            /\ gpc[c] \in {"idle", "returned"}
            /\ Invocations(c) = 0
            /\ Len(sleeps[c]) = 0
            /\ rotations[c] = 0
            /\ Returned(c) =>
                  /\ ~result[c].images
                  /\ result[c].error = NoKeyError
                  /\ current_key_index = startIndex[c]

C10_Witness ==
    \E c \in Callers : api_keys = 0 /\ Returned(c)


\* ==========================================================================
\* Claims about the concurrency semaphore (checked under SpecGate and
\* SpecGateFair)
\* ==========================================================================
\* The pipelines inside the gated generate-and-send section.
InSection == {p \in PipeIds : pipe[p].unit \/ pipe[p].pc \in {"generate", "send"}}

\* The waiters that Semaphore._wake_up_next has given a unit and that have
\* not resumed yet.
Granted == {p \in PipeIds : pipe[p].pc = "acquire" /\ pipe[p].fut = "set"}

\* C11: with the semaphore created with capacity C >= 1, at no instant are
\* more than C pipelines inside the gated generate-and-send section.
C11_AtMostCapacity ==
    configured => (capacity >= 1 /\ Cardinality(InSection) <= capacity)

C11_Witness ==
    /\ configured /\ capacity = 2 /\ Cardinality(InSection) = 2
    /\ \E p \in PipeIds : pipe[p].pc = "acquire" /\ pipe[p].fut = "pending"

\* C12: under fair scheduling, and with every backend call and send
\* eventually returning, every submitted pipeline eventually terminates,
\* and it has passed through the semaphore unless it was cancelled.
C12_AllComplete ==
    \A p \in PipeIds :
        (configured /\ pipe[p].pc = "new") ~>
            (pipe[p].pc = "done" /\ (pipe[p].acquires = 1 \/ pipe[p].cancelled))

C12_Witness ==
    /\ configured /\ capacity = 1
    /\ \E p, q \in PipeIds :
          /\ pipe[p].pc = "done" /\ pipe[p].acquires = 1 /\ ~pipe[p].cancelled
          /\ pipe[q].pc = "acquire" /\ pipe[q].fut = "set"
    /\ \E r \in PipeIds : pipe[r].pc = "acquire" /\ pipe[r].fut = "pending"

\* C13: every unit of the semaphore is either available, or held by a
\* pipeline inside the section, or granted to a waiter that has not resumed
\* yet; a pipeline acquires at most once and releases exactly what it
\* acquired, whether it ends by returning, by raising or by cancellation;
\* when every submitted pipeline has terminated all units are available.
C13_UnitsConserved ==
    configured =>
        /\ sem_value + Cardinality({p \in PipeIds : pipe[p].unit})
              + Cardinality(Granted) = capacity
        /\ \A p \in PipeIds :
              /\ pipe[p].releases <= pipe[p].acquires /\ pipe[p].acquires <= 1
              /\ pipe[p].unit <=> (pipe[p].acquires = 1 /\ pipe[p].releases = 0)
              /\ pipe[p].pc = "done" => pipe[p].releases = pipe[p].acquires
        /\ (\A p \in PipeIds : pipe[p].pc \in {"absent", "done"}) =>
              sem_value = capacity

C13_Witness ==
    /\ configured /\ sem_value = capacity
    /\ \A p \in PipeIds : pipe[p].pc = "done"
    /\ \E p \in PipeIds : pipe[p].cancelled /\ pipe[p].releases = 1
    /\ \E p \in PipeIds : pipe[p].cancelled /\ pipe[p].sanitized /\ pipe[p].acquires = 0
    /\ \E p \in PipeIds : ~pipe[p].cancelled /\ pipe[p].releases = 1

\* C14: a pipeline has finished the capability clean-up before it queues
\* for or takes a unit, and it is inside the semaphore whenever it is in,
\* or has reached, the backend call.
C14_SanitizeAcquireInvoke ==
    \A p \in PipeIds :
        /\ (pipe[p].fut # "none" \/ pipe[p].acquires > 0 \/ pipe[p].invoked # "no")
              => pipe[p].sanitized
        /\ pipe[p].invoked # "without_unit"
        /\ pipe[p].pc = "generate" => pipe[p].unit
        /\ pipe[p].invoked # "no" => pipe[p].acquires = 1

C14_Witness ==
    \E p, q \in PipeIds :
        /\ pipe[p].pc = "generate" /\ pipe[p].invoked = "with_unit"
        /\ pipe[q].pc = "acquire" /\ pipe[q].sanitized /\ pipe[q].invoked = "no"

\* ==========================================================================
\* Claims about cleanup_cache (checked under SpecCache)
\* ==========================================================================
\* C15: when cleanup_cache ran on a directory with n regular files, n above
\* the maximum m, and no deletion failed, exactly n - m files were deleted,
\* the m that remain are regular files of the directory, no deleted file is
\* newer than a remaining one, and nothing else in the directory changed.
C15_OldestDeleted ==
    LET before == RegularFiles(cleanup.before)
        after == RegularFiles(cache_entries)
        n == Cardinality(before)
        m == _max_cache_count
    IN  (cleanup.ran /\ cleanup.failed = {} /\ n > m) =>
            /\ after \subseteq before
            /\ Cardinality(after) = m
            /\ Cardinality(before \ after) = n - m
            /\ \A d \in before \ after, k \in after :
                  cleanup.before[d].mtime <= cleanup.before[k].mtime
            /\ \A e \in EntryIds \ (before \ after) :
                  cache_entries[e] = cleanup.before[e]

C15_Witness ==
    /\ cleanup.ran /\ cleanup.failed = {}
    /\ Cardinality(RegularFiles(cleanup.before)) = 4 /\ _max_cache_count = 2
    /\ cleanup.before[1].mtime = 2 /\ cleanup.before[2].mtime = 0
    /\ cleanup.before[3].mtime = 1 /\ cleanup.before[4].mtime = 1
    /\ RegularFiles(cache_entries) = {1, 4}

\* ==========================================================================
\* Claims about the dispatcher (checked under SpecDispatch)
\* ==========================================================================
\* A GenerationResult with exactly one side populated: images and no error,
\* or no images and a non-empty error description.
ExactlyOnePopulated(r) ==
    \/ r.images /\ r.error = "-"
    \/ ~r.images /\ r.error \notin {"-", ""}

\* C16 (as stated): every result returned by the retrying adapter call or
\* by the dispatcher has exactly one of images and error populated.
C16_AsStated ==
    \A c \in DispatchCallers :
        /\ gpc[c] = "returned" => ExactlyOnePopulated(result[c])
        /\ dpc[c] = "returned" => ExactlyOnePopulated(dresult[c])

\* C20: no exception of the adapter escapes the dispatcher: an adapter
\* failure, returned or raised, reaches the caller as a result without
\* images whose error field holds the adapter's error description or the
\* exception's text; a retry failure is returned only after
\* max_retry_attempts backend invocations.
C20_NoFaultEscapes ==
    \A c \in DispatchCallers :
        /\ dpc[c] # "raised"
        /\ (dpc[c] = "returned" /\ ~dresult[c].images) =>
              /\ dresult[c].error # "-"
              /\ dresult[c].cause = "adapter_exception" =>
                    dresult[c].error \in ExcMessages
              /\ (dresult[c].cause = "adapter_result" /\ gpc[c] = "returned") =>
                    /\ dresult[c].error = result[c].error
                    /\ dresult[c].error # NoKeyError =>
                          /\ dresult[c].error = RetryPrefix \o last_error[c]
                          /\ invocations[c] = max_retry_attempts
        /\ (dpc[c] = "returned" /\ dresult[c].images) =>
              dresult[c].cause = "adapter_result"

C20_Witness ==
    \E c \in DispatchCallers :
        /\ dpc[c] = "returned" /\ dresult[c].cause = "adapter_exception"
        /\ dresult[c].error = "boom"

\* ==========================================================================
\* Claims about the startup tasks (checked under SpecStartup)
\* ==========================================================================
\* C17: an invocation of run_startup_tasks starts the registered factories
\* in registration order, has at most one of them executing at a time (the
\* one it started last), and a factory that raised does not keep the
\* invocation from starting every later factory: an invocation that ran to
\* its end has started all factories registered by then, failures or not.
C17_InOrderOneAtATime ==
    \A r \in RunIds :
        /\ Len(run[r].started) <= Len(_startup_tasks)
        /\ \A i \in 1..Len(run[r].started) : run[r].started[i] = _startup_tasks[i]
        /\ Cardinality(run[r].running) <= 1
        /\ run[r].pc = "factory" =>
              run[r].running = {run[r].started[Len(run[r].started)]}
        /\ run[r].pc # "factory" => run[r].running = {}
        /\ run[r].failed \subseteq {run[r].started[i] : i \in 1..Len(run[r].started)}
        /\ (run[r].outcome = "completed" /\ ~run[r].lateCall) =>
              Len(run[r].started) = run[r].regAtEnd

C17_Witness ==
    \E r \in RunIds :
        /\ run[r].outcome = "completed" /\ run[r].started = <<1, 2, 3>>
        /\ run[r].failed = {1, 2}

\* C18: once an invocation of run_startup_tasks has run to completion the
\* flag _startup_completed is true and stays true, and an invocation that
\* begins after that executes no factory, whatever is registered meanwhile.
C18_CompletedForGood ==
    [][/\ _startup_completed => _startup_completed'
       /\ \A r \in RunIds :
             /\ (run'[r].outcome = "completed" /\ run[r].outcome # "completed")
                   => _startup_completed'
             /\ (_startup_completed /\ run[r].pc = "new" /\ run'[r].pc # "new") =>
                   /\ run'[r].pc = "done" /\ run'[r].started = <<>>
                   /\ run'[r].running = {}
             /\ run[r].lateCall => run'[r].started = <<>>]_vars

C18_Witness ==
    /\ _startup_completed
    /\ \E r, q \in RunIds :
          /\ run[r].outcome = "completed" /\ run[r].started = <<1>>
          /\ run[q].outcome = "skipped" /\ run[q].started = <<>>
    /\ Len(_startup_tasks) = 2

\* ==========================================================================
\* Claims about the sanitization (checked under SpecSanitize)
\* ==========================================================================

\* C19: for every capability set and every request, the request handed to
\* the backend has no reference image if the adapter lacks IMAGE_TO_IMAGE,
\* the automatic aspect ratio (which a dispatched request expresses as
\* aspect_ratio None) if it lacks ASPECT_RATIO, and the resolution 1K if it
\* lacks RESOLUTION; no step of the sanitization raises.
C19_SanitizedDispatch ==
    spc = "dispatched" =>
        /\ ~dispatched.raised
        /\ "IMAGE_TO_IMAGE" \notin capabilities => dispatched.images = 0
        /\ "ASPECT_RATIO" \notin capabilities =>
               dispatched.aspect_ratio = NoString
        /\ "RESOLUTION" \notin capabilities =>
               dispatched.resolution = BaselineResolution

C19_Witness ==
    /\ spc = "dispatched"
    /\ capabilities = {"TEXT_TO_IMAGE"}
    /\ call_args = [images_data |-> 2, aspect_ratio |-> "16:9", resolution |-> "2K"]
    /\ dispatched = [images |-> 0, aspect_ratio |-> NoString,
                     resolution |-> BaselineResolution, raised |-> FALSE]

\* ==========================================================================
\* Claims about the bodies of the loop and daily tasks
\* ==========================================================================

\* The step in which a run of a loop task's factory (initial or periodic)
\* ends by raising an Exception.
LoopRunFails(i) ==
    /\ task[i].kind = "loop" /\ task[i].pc \in {"init_run", "run"}
    /\ Runnable(i)
    /\ ~hist[i].lastFailed /\ hist'[i].lastFailed

\* C22: a loop task whose factory fails on a tick or on its initial
\* execution is not terminated and goes back to its wait; the failing step
\* changes no other task and no registry; and unless the task is cancelled,
\* the factory is invoked again once the interval has passed.
C22_FailureIsNotFatal ==
    /\ [][\A i \in TaskIds :
             LoopRunFails(i) =>
                 /\ task'[i].pc = "sleep" /\ ~task'[i].must_cancel
                 /\ \A j \in TaskIds \ {i} : task'[j] = task[j]
                 /\ Registries' = Registries]_vars
    /\ \A i \in TaskIds :
          (task[i].kind = "loop" /\ task[i].pc = "sleep" /\ hist[i].lastFailed
                /\ Runnable(i))
             ~> (task[i].pc = "run" \/ ~Runnable(i))

C22_Witness ==
    \E i, j \in TaskIds :
        /\ i # j /\ Runnable(i) /\ Alive(j) /\ j \in background_tasks
        /\ task[i].kind = "loop" /\ task[i].pc = "sleep"
        /\ hist[i].lastFailed /\ ~task[i].run_immediately

\* Task j's factory is invoked in this step.
Invoked(j) ==
    /\ task[j].pc \notin {"init_run", "run"}
    /\ task'[j].pc \in {"init_run", "run"}

\* A task of the kind was cancelled by stop_loop_task / stop_daily_task(n)
\* in its periodic wait, and the name has not been registered again.
StoppedName(h, kind, n) ==
    \E i \in TaskIds : task[i].kind = kind /\ h[i].stopped = n

\* C23 (as stated): after stop_loop_task(name) or stop_daily_task(name) has
\* cancelled a task suspended in its periodic wait, that task does not
\* invoke its factory again, and no task of that kind and name invokes the
\* factory until the name is registered again.
C23_AsStated ==
    [][\A k \in {"loop", "daily"}, n \in Names :
          (StoppedName(hist, k, n) /\ StoppedName(hist', k, n)) =>
              \A j \in TaskIds :
                  (task[j].kind = k /\ task[j].name = n) => ~Invoked(j)]_vars

\* C24: a loop task started with run_immediately=True invokes its factory
\* exactly once before its first periodic wait, one started with
\* run_immediately=False goes to the wait without invoking it, and the wait
\* is entered whether or not the initial invocation raised. (A task that is
\* cancelled before its first wait never reaches it.)
C24_InitialRun ==
    [][\A i \in TaskIds :
          (task[i].kind = "loop" /\ Runnable(i) /\ task'[i].pc # task[i].pc) =>
              /\ task[i].pc = "new" =>
                     task'[i].pc = IF task[i].run_immediately
                                   THEN "init_run" ELSE "sleep"
              /\ task[i].pc = "init_run" => task'[i].pc = "sleep"
              /\ task'[i].pc = "init_run" => task[i].pc = "new"
              /\ task'[i].pc = "run" => task[i].pc = "sleep"]_vars

C24_Witness ==
    \E i \in TaskIds :
        /\ created = 1
        /\ task[i].kind = "loop" /\ task[i].pc = "sleep" /\ Runnable(i)
        /\ task[i].run_immediately /\ hist[i].lastFailed

\* ==========================================================================
\* More claims about cleanup_cache (checked under SpecCache)
\* ==========================================================================

\* C25: when cleanup_cache selected files for deletion and some deletions
\* failed, every other selected file is gone, the files whose deletion
\* failed and the files not selected are as they were, and the invocation
\* returned without raising (so the loop task that awaits it goes on).
C25_FailuresSkipped ==
    LET selected == ToDelete(cleanup.before) IN
    (cleanup.ran /\ cleanup.failed # {}) =>
        /\ cleanup.failed \subseteq selected
        /\ \A e \in selected \ cleanup.failed : cache_entries[e] = NoEntry
        /\ \A e \in EntryIds \ (selected \ cleanup.failed) :
              cache_entries[e] = cleanup.before[e]
        /\ ~cleanup.raised

C25_Witness ==
    /\ cleanup.ran /\ _max_cache_count = 1
    /\ Cardinality(RegularFiles(cleanup.before)) = 4
    /\ cleanup.before[1].mtime = 0 /\ cleanup.before[2].mtime = 1
    /\ cleanup.before[3].mtime = 1 /\ cleanup.before[4].mtime = 2
    /\ cleanup.failed = {2}
    /\ RegularFiles(cache_entries) = {2, 4}

\* ==========================================================================
\* More claims about the TaskManager's methods (checked under SpecTM)
\* ==========================================================================

\* C26: stop_loop_task(name) and stop_daily_task(name) on a name that is not
\* registered cancel no task and leave the tracked-task set, both registries
\* and the last-run-date map unchanged.
C26_StopUnregisteredIsNoOp ==
    [][\A n \in Names :
          /\ (_loop_tasks[n] = None /\ stop_loop_task(n)) =>
                 (task' = task /\ Registries' = Registries)
          /\ (_daily_tasks[n] = None /\ stop_daily_task(n)) =>
                 (task' = task /\ Registries' = Registries)]_vars

\* A state in which a stop on the unregistered name has something it must
\* leave alone: a living daily task that is no longer registered, and a
\* last-run date under the name.
C26_Witness ==
    \E n \in Names, i \in TaskIds :
        /\ _daily_tasks[n] = None /\ _loop_tasks[n] = None
        /\ _last_run_dates[n] # NoDate
        /\ task[i].kind = "daily" /\ task[i].name = n /\ Runnable(i)
        /\ i \in background_tasks

\* C27 (as stated): an ad-hoc task created with create_task is in the
\* tracked set from its creation until it terminates.
C27_AsStated ==
    \A i \in TaskIds :
        (task[i].kind = "adhoc" /\ Alive(i)) => i \in background_tasks

\* The loop tasks of name n that are inside an invocation of the factory
\* and whose cancellation has not been requested.
Invoking(n) ==
    {i \in TaskIds : /\ task[i].kind = "loop" /\ task[i].name = n
                     /\ Runnable(i) /\ task[i].pc \in {"init_run", "run"}}

\* C28 (as stated): for any one name, no two invocations of the factory
\* registered under it overlap. An invocation whose task has been cancelled
\* is counted as over, so the statement is the claim's most lenient reading.
C28_AsStated ==
    \A n \in Names : Cardinality(Invoking(n)) <= 1

\* ==========================================================================
\* More claims about Jimeng2APIAdapter.generate (checked under SpecGen)
\* ==========================================================================

\* C29: with concurrent generate calls on one adapter, the rotation index
\* always satisfies 0 <= index < max(1, K); every attempt, when it is
\* issued, uses the key at index mod K of that moment; and with K = 0 the
\* credential handed out is the empty string (-1 here) and no attempt is
\* made.
C29_IndexInRange ==
    /\ [](/\ 0 <= current_key_index
          /\ current_key_index < Max(1, api_keys)
          /\ api_keys = 0 =>
                /\ _get_current_api_key = -1
                /\ \A c \in Callers : Invocations(c) = 0 /\ usedKey[c] = -1)
    /\ [][\A c \in Callers :
             invocations'[c] > invocations[c] =>
                 /\ api_keys > 0
                 /\ usedKey'[c] = current_key_index' % api_keys]_vars

C29_Witness ==
    /\ api_keys = 2 /\ current_key_index = 1
    /\ gpc["c1"] = "request" /\ usedKey["c1"] = 0 /\ attempt["c1"] = 3
    /\ gpc["c2"] = "request" /\ usedKey["c2"] = 1 /\ attempt["c2"] = 0

\* C30: rotation and backoff happen only when more attempts remain: the
\* step in which the last (max_retry_attempts-th) attempt fails returns the
\* failure without moving the rotation index and without a backoff sleep,
\* and every rotation or sleep of a call follows an attempt that is not the
\* last.
C30_NoRotationAfterLast ==
    [][\A c \in Callers :
          /\ (gpc[c] = "request" /\ gpc'[c] = "returned" /\ ~result'[c].images) =>
                 /\ attempt[c] = max_retry_attempts - 1
                 /\ current_key_index' = current_key_index
                 /\ rotations'[c] = rotations[c]
                 /\ sleeps'[c] = sleeps[c]
          /\ (rotations'[c] > rotations[c] \/ Len(sleeps'[c]) > Len(sleeps[c])) =>
                 attempt[c] < max_retry_attempts - 1]_vars

C30_Witness ==
    \E c \in Callers :
        /\ Failed(c) /\ api_keys = 2 /\ max_retry_attempts = 3
        /\ Invocations(c) = 3 /\ rotations[c] = 2 /\ Len(sleeps[c]) = 1
        /\ ~interfered[c] /\ current_key_index = (startIndex[c] + 2) % api_keys

\* C31: when cleanup_cache ran on a directory whose number of regular files
\* does not exceed the configured maximum, no file was deleted: the
\* directory is as the call found it, and no deletion was attempted.
C31_NothingDeletedWithinMaximum ==
    (cleanup.ran /\ Cardinality(RegularFiles(cleanup.before)) <= _max_cache_count) =>
        /\ cache_entries = cleanup.before
        /\ cleanup.failed = {}

C31_Witness ==
    /\ cleanup.ran /\ cache_dir_exists /\ _max_cache_count = 2
    /\ Cardinality(RegularFiles(cleanup.before)) = 2
    /\ \E e \in EntryIds : cleanup.before[e].kind = "dir"
    /\ cleanup.before[1] = [kind |-> "file", mtime |-> 0]
    /\ cache_entries = cleanup.before

\* ==========================================================================
\* Claims about the registries as a whole (checked under SpecTM)
\* ==========================================================================
\* The registry a task of this kind is recorded in.
RegistryOf(kind) == IF kind = "loop" THEN _loop_tasks ELSE _daily_tasks

\* C32 (as stated): every loop or daily task that is still running (not
\* terminated, and no cancellation waiting for it) is the task recorded under
\* its name in the registry of its kind, so that stopping the name reaches it.
C32_AsStated ==
    \A i \in TaskIds :
        (task[i].kind \in {"loop", "daily"} /\ Runnable(i)) =>
            RegistryOf(task[i].kind)[task[i].name] = i

\* C33 (as stated): no task leaks from tracking: every task created through
\* create_task, start_loop_task or start_daily_task that has not terminated
\* is in background_tasks, in every reachable state, tasks created while
\* cancel_all awaits the cancelled ones included.
C33_AsStated ==
    \A i \in TaskIds :
        (task[i].kind \in {"adhoc", "loop", "daily"} /\ Alive(i)) =>
            i \in background_tasks

\* ==========================================================================
\* More claims about run_startup_tasks (checked under SpecStartup)
\* ==========================================================================
\* The invocations of run_startup_tasks that have started factory f.
Executions(f) ==
    {r \in RunIds : \E k \in 1..Len(run[r].started) : run[r].started[k] = f}

\* C34 (as stated): each registered startup factory is executed at most once
\* in the process lifetime, over all invocations of run_startup_tasks and
\* all their interleavings.
C34_AsStated ==
    \A f \in 1..Len(_startup_tasks) : Cardinality(Executions(f)) <= 1

\* ==========================================================================
\* More claims about the daily tasks (checked under SpecDaily)
\* ==========================================================================
\* C35 (as stated): the names that have a last-run date are names of the
\* daily-task registry: no last-run date is kept for a name under which no
\* daily task is registered.
C35_AsStated ==
    \A n \in Names : _last_run_dates[n] # NoDate => _daily_tasks[n] # None

\* ==========================================================================
\* Claims about the usage limits (checked under SpecUsage)
\* ==========================================================================
\* C36 (as stated): with the daily limit enabled at L, the usage count
\* recorded for a user on one day never exceeds L, for any interleaving of
\* that user's admitted commands and the pipelines that complete them.
C36_AsStated ==
    _settings.enable_daily_limit =>
        \A d \in 0..MaxDate, u \in Users :
            _usage_data[d][u] <= _settings.daily_limit_count

\* ==========================================================================
\* The rotation index across generate calls (checked under SpecGen)
\* ==========================================================================
\* A call that has returned images and during which no other call moved the
\* shared index.
SucceededAlone(c) == Returned(c) /\ result[c].images /\ ~interfered[c]

\* C37: a successful attempt leaves the rotation index unchanged: the step in
\* which an attempt of a call returns images does not move the shared index,
\* which (no other call having moved it meanwhile) is the index of the key
\* that succeeded; and a generate call that starts while the index is still
\* there makes its attempt 0 with that same key, without moving the index.
C37_SuccessKeepsIndex ==
    [][\A c \in Callers :
          /\ (gpc[c] = "request" /\ gpc'[c] = "returned" /\ result'[c].images) =>
                /\ current_key_index' = current_key_index
                /\ ~interfered[c] => current_key_index' = usedKey[c]
                /\ usedKey'[c] = usedKey[c]
          /\ \A d \in Callers \ {c} :
                (/\ SucceededAlone(c) /\ current_key_index = usedKey[c]
                 /\ gpc[d] = "idle" /\ gpc'[d] # "idle") =>
                    /\ gpc'[d] = "request" /\ attempt'[d] = 0
                    /\ usedKey'[d] = usedKey[c]
                    /\ current_key_index' = current_key_index]_vars

C37_Witness ==
    \E c \in Callers : \E d \in Callers \ {c} :
        /\ api_keys = 2 /\ startIndex[c] = 0
        /\ SucceededAlone(c) /\ successAt[c] = 1 /\ usedKey[c] = 1
        /\ current_key_index = 1
        /\ gpc[d] = "request" /\ attempt[d] = 0 /\ startIndex[d] = 1
        /\ usedKey[d] = 1 /\ rotations[d] = 0

\* ==========================================================================
\* Claims about the three registries (checked under SpecNames)
\* ==========================================================================
\* A step of start_loop_task, stop_loop_task or a loop task's done callback;
\* the same for the daily tasks; a step of the startup tasks.
LoopOperation ==
    \/ \E n \in Names, imm \in BOOLEAN : start_loop_task(n, imm)
    \/ \E n \in Names : stop_loop_task(n)
    \/ \E i \in TaskIds : task[i].kind = "loop" /\ DoneCallback(i)

DailyOperation ==
    \/ \E n \in Names, imm \in BOOLEAN : start_daily_task(n, imm)
    \/ \E n \in Names : stop_daily_task(n)
    \/ \E i \in TaskIds : task[i].kind = "daily" /\ DoneCallback(i)

StartupOperation ==
    \/ register_startup_task
    \/ \E r \in RunIds : RunStartupCalled(r) \/ RunStartupBegins(r)
    \/ \E r \in RunIds, ok \in BOOLEAN : FactoryEnds(r, ok)

\* No task of the kind is cancelled, replaced or unregistered by the step.
KindUntouched(kind) ==
    /\ \A i \in TaskIds : task[i].kind = kind => task'[i] = task[i]
    /\ \A n \in Names : RegistryOf(kind)'[n] = RegistryOf(kind)[n]
    /\ \A i \in TaskIds :
          (task[i].kind = kind /\ i \in background_tasks) => i \in background_tasks'

StartupUntouched ==
    /\ _startup_tasks' = _startup_tasks
    /\ _startup_completed' = _startup_completed
    /\ run' = run

\* C38: loop tasks, daily tasks and startup tasks live in independent
\* namespaces: starting or stopping a loop task of a name (or the end of
\* one) does not cancel, replace or unregister the daily task or the startup
\* task of that name, nor touch the last-run date; and the same holds of the
\* daily operations towards loop and startup tasks, and of the startup
\* operations towards loop and daily tasks.
C38_IndependentNamespaces ==
    [][/\ LoopOperation =>
             /\ KindUntouched("daily") /\ StartupUntouched
             /\ _last_run_dates' = _last_run_dates
       /\ DailyOperation => KindUntouched("loop") /\ StartupUntouched
       /\ StartupOperation =>
             /\ KindUntouched("loop") /\ KindUntouched("daily")
             /\ _last_run_dates' = _last_run_dates]_vars

C38_Witness ==
    \E n \in Names, i, j \in TaskIds :
        /\ task[i].kind = "daily" /\ Runnable(i) /\ task[i].pc = "sleep"
        /\ _daily_tasks[n] = i /\ _last_run_dates[n] = today
        /\ task[j].kind = "loop" /\ task[j].pc = "done" /\ ~task[j].cb_pending
        /\ _loop_tasks[n] = None
        /\ Len(_startup_tasks) = 1 /\ run[1].pc = "factory"

====
